---- MODULE Spec2Model ----
(***************************************************************************)
(* Transcript normalisation and parsing pipeline of                        *)
(* meeting_performance_analyzer.py (class MeetingPerformanceAnalyzer).     *)
(*                                                                         *)
(* Text is modelled by TLA+ strings, character by character: Len, SubSeq   *)
(* and \o act on strings as they do on Python str.  TLA+ string literals   *)
(* are ASCII, so the non-ASCII code points of the source are written with  *)
(* an escape that occurs nowhere else in the model's alphabet:             *)
(*   "~"      U+FEFF, the byte-order mark                                  *)
(*   "&..."   a romanised Hangul / Vietnamese word or the book emoji       *)
(* Whitespace is the blank, the tab, the line feed and the carriage return. *)
(***************************************************************************)
EXTENDS Integers, Sequences, FiniteSets, TLC

VARIABLES
    lines,          \* parse_transcript: transcript.split('\n')
    i,              \* parse_transcript: the cursor (0-based, as in the code)
    parsed_lines,   \* parse_transcript: the utterances emitted so far
    pc,             \* position of the modelled call
    branch,         \* parse_transcript: the branch the last iteration took
    name_in,        \* _normalize_participant_name: the argument
    name_out,       \* _normalize_participant_name: results of one and two calls
    doc_in,         \* _normalize_document: the record of the caller
    doc_out,        \* _normalize_document: results of one and two calls
    stats,          \* extract_participant_stats: the dictionary returned
    stats_keys,     \* extract_participant_stats: its keys, in insertion order
    content_in,     \* _extract_transcript_section: the argument
    section_out,    \* _extract_transcript_section: the result, once returned
    meetings,       \* analyze_aggregated_meetings etc.: the documents passed in
    sorted_meetings,        \* analyze_aggregated_meetings: the sorted list
    n_done,                 \* the number of documents the loop has dealt with
    aggregated_transcript,  \* the pieces `+=` has appended, in order
    all_participants,       \* analyze_aggregated_meetings: the set
    global_stats,           \* analyze_aggregated_meetings: the running totals
    calls,          \* the calls made to parse_transcript and to the LLM
    recordings,         \* the collection shared.recordings, in insertion order
    failed_recordings,  \* the collection shared.failed_recordings
    failed_ids,         \* move_failed_recordings: the argument
    failed_documents,   \* move_failed_recordings: the argument
    dry_run,            \* move_failed_recordings: the argument
    documents,          \* move_failed_recordings: the documents to move
    query,              \* move_failed_recordings: the _id values of the query
    ops,                \* the writes issued to the two collections
    filters,            \* fetch_meeting_records: the caller's dictionary
    and_list,           \* the list object under filters['$and']
    conditions,         \* the condition dictionaries that list refers to
    filters_before,     \* the value of the caller's filters before the call
    mongo_filters,      \* fetch_meeting_records: the query handed to find
    date_filter         \* fetch_meeting_records: the date condition taken out

aggVars ==
    <<meetings, sorted_meetings, n_done, aggregated_transcript, all_participants, global_stats,
      calls>>

moveVars ==
    <<recordings, failed_recordings, failed_ids, failed_documents, dry_run, documents, query, ops>>

fetchVars == <<filters, and_list, conditions, filters_before, mongo_filters, date_filter>>

vars ==
    <<lines, i, parsed_lines, pc, branch, name_in, name_out, doc_in, doc_out, stats, stats_keys,
      content_in, section_out, aggVars, moveVars, fetchVars>>

----------------------------------------------------------------------------
(* Characters and strings                                                  *)

\* s[k-1:k] of a 1-based position k: empty outside the string
Char(s, k) == IF 1 <= k /\ k <= Len(s) THEN SubSeq(s, k, k) ELSE ""

\* the characters \s and str.strip() take for whitespace
IsSpace(c) == c \in {" ", "\t", "\n", "\r"}

IsDigit(c) == c \in {"0", "1", "2", "3", "4", "5", "6", "7", "8", "9"}

\* the position after a leading run of whitespace starting at k
RECURSIVE SkipSpace(_, _)
SkipSpace(s, k) == IF k <= Len(s) /\ IsSpace(Char(s, k)) THEN SkipSpace(s, k + 1) ELSE k

\* the position before a trailing run of whitespace ending at k
RECURSIVE SkipSpaceBack(_, _)
SkipSpaceBack(s, k) == IF k >= 1 /\ IsSpace(Char(s, k)) THEN SkipSpaceBack(s, k - 1) ELSE k

\* str.strip()
Strip(s) == SubSeq(s, SkipSpace(s, 1), SkipSpaceBack(s, Len(s)))

\* str.lstrip(), the effect of a greedy leading \s*
LStrip(s) == SubSeq(s, SkipSpace(s, 1), Len(s))

\* s[k-1:] of a 1-based position k
From(s, k) == SubSeq(s, k, Len(s))

\* str.startswith / a literal at position k
HasAt(s, k, w) == k >= 1 /\ k + Len(w) - 1 <= Len(s) /\ SubSeq(s, k, k + Len(w) - 1) = w

StartsWith(s, w) == HasAt(s, 1, w)

\* str.find(c, k): the first position of character c at or after k, 0 when absent
RECURSIVE Find(_, _, _)
Find(s, c, k) ==
    IF k > Len(s) THEN 0 ELSE IF Char(s, k) = c THEN k ELSE Find(s, c, k + 1)

UpperCase == "ABCDEFGHIJKLMNOPQRSTUVWXYZ"
LowerCase == "abcdefghijklmnopqrstuvwxyz"

LowerChar(c) ==
    LET at == Find(UpperCase, c, 1)
    IN  IF at = 0 THEN c ELSE Char(LowerCase, at)

\* the case folding of re.IGNORECASE, applied to the subject
RECURSIVE ToLower(_)
ToLower(s) == IF s = "" THEN "" ELSE LowerChar(Char(s, 1)) \o ToLower(From(s, 2))

\* literal words separated by \s+ matched at position k: the position after
\* the match, 0 when there is none
RECURSIVE WordsEnd(_, _, _)
WordsEnd(s, k, words) ==
    IF words = <<>> THEN k
    ELSE IF ~HasAt(s, k, Head(words)) THEN 0
    ELSE LET e == k + Len(Head(words))
         IN  IF Tail(words) = <<>> THEN e
             ELSE IF SkipSpace(s, e) = e THEN 0
             ELSE WordsEnd(s, SkipSpace(s, e), Tail(words))

\* \d{2}:\d{2} at position k
IsHM(s, k) ==
    /\ k + 4 <= Len(s)
    /\ IsDigit(Char(s, k)) /\ IsDigit(Char(s, k + 1)) /\ Char(s, k + 2) = ":"
    /\ IsDigit(Char(s, k + 3)) /\ IsDigit(Char(s, k + 4))

\* \d{2}:\d{2}:\d{2} at position k
IsHMS(s, k) ==
    /\ IsHM(s, k) /\ k + 7 <= Len(s)
    /\ Char(s, k + 5) = ":" /\ IsDigit(Char(s, k + 6)) /\ IsDigit(Char(s, k + 7))

AllDigits(s) == s # "" /\ \A k \in 1..Len(s) : IsDigit(Char(s, k))

----------------------------------------------------------------------------
(* _is_valid_participant                                                   *)

BOM == "~"

\* invalid_patterns, in the order of the source; each is re.search with
\* re.IGNORECASE on the trimmed speaker t (lt is t case-folded)
MatchesInvalidPattern(t) ==
    LET lt == ToLower(t)
    IN  \/ WordsEnd(lt, 1, <<"transcription", "ended">>) # 0
        \/ WordsEnd(lt, 1, <<"transcription", "ended", "after">>) # 0
        \/ WordsEnd(lt, 1, <<"session", "ended">>) # 0
        \/ WordsEnd(lt, 1, <<"session", "ended", "after">>) # 0
        \/ \E k \in 1..Len(lt) : WordsEnd(lt, k, <<"meeting", "ended", "after">>) # 0
        \/ WordsEnd(lt, 1, <<"this", "editable", "transcript">>) # 0
        \/ WordsEnd(lt, 1, <<"you", "should", "review">>) # 0
        \/ WordsEnd(lt, 1, <<"please", "provide", "feedback">>) # 0
        \/ WordsEnd(lt, 1, <<"get", "tips">>) # 0
        \/ StartsWith(lt, "*")
        \/ StartsWith(lt, "ooo")
        \/ StartsWith(lt, "&cheombupail")
        \/ StartsWith(lt, "&chodaedoem")
        \/ StartsWith(lt, "gemini&ga")
        \/ StartsWith(lt, "&sujeong &ganeunghan")
        \/ (Len(lt) >= 4 /\ AllDigits(SubSeq(lt, 1, 4)) /\ HasAt(lt, 5, "&nyeon"))
        \/ (IsHMS(lt, 1) /\ Len(lt) = 8)
        \/ (IsHM(lt, 1) /\ Len(lt) = 5)
        \/ StartsWith(lt, "&hu &seukeuripteu")
        \/ AllDigits(lt)
        \/ StartsWith(lt, "attachments")
        \/ WordsEnd(lt, 1, <<"project", "trh">>) = Len(lt) + 1
        \/ \E k \in 1..Len(lt) : WordsEnd(lt, k, <<"'s", "presentation">>) = Len(lt) + 1
        \/ \E k \in 1..Len(lt) : WordsEnd(lt, k, <<"&nimui", "&balpyo">>) = Len(lt) + 1
        \/ StartsWith(lt, BOM)

\* the validator, were it not to strip the byte-order mark
IsValidParticipantKeepingBom(speaker) ==
    LET s1 == Strip(speaker)
    IN  /\ s1 # ""
        /\ ~MatchesInvalidPattern(s1)

IsValidParticipant(speaker) ==
    LET s1 == Strip(speaker)
        s2 == IF StartsWith(s1, BOM) THEN Strip(From(s1, 2)) ELSE s1
    IN  /\ s1 # ""
        /\ s2 # ""
        /\ ~MatchesInvalidPattern(s2)

----------------------------------------------------------------------------
(* _normalize_participant_name                                             *)

\* name_mapping
NameMappingKeys == {"Nam", "Nam Ph&am Ti&en", "Nam Ti&en", "Nakamura Chiko", "Geonwoo Shin"}

\* the alias table, were the entry of "Nam Ti&en" missing
NameMappingWithoutTien(k) ==
    CASE k = "Nam"             -> "Nam Pham"
      [] k = "Nam Ph&am Ti&en" -> "Nam Pham"
      [] k = "Nam Ti&en"       -> "Nam Ti&en"
      [] k = "Nakamura Chiko"  -> "Chiko Nakamura"
      [] k = "Geonwoo Shin"    -> "Thomas Shin"

NameMapping(k) ==
    CASE k = "Nam"             -> "Nam Pham"
      [] k = "Nam Ph&am Ti&en" -> "Nam Pham"
      [] k = "Nam Ti&en"       -> "Nam Pham"
      [] k = "Nakamura Chiko"  -> "Chiko Nakamura"
      [] k = "Geonwoo Shin"    -> "Thomas Shin"

\* re.match(r'^([^\[\]]+)\[.*?\]$', name): the position of the opening
\* bracket that ends group 1, 0 when the name does not match
BracketAt(name) ==
    LET open  == Find(name, "[", 1)
        close == Find(name, "]", 1)
        p     == IF open = 0 \/ (close # 0 /\ close < open) THEN 0 ELSE open
    IN  IF p >= 2 /\ Char(name, p) = "[" /\ Len(name) > p /\ Char(name, Len(name)) = "]"
        THEN p ELSE 0

\* re.sub(r'\s+', ' ', name)
RECURSIVE CollapseSpace(_)
CollapseSpace(s) ==
    IF s = "" THEN ""
    ELSE IF IsSpace(Char(s, 1)) THEN " " \o CollapseSpace(From(s, SkipSpace(s, 1)))
    ELSE Char(s, 1) \o CollapseSpace(From(s, 2))

\* the bracket branch, lines 331-337
StripBracket(name) ==
    LET normalized == Strip(SubSeq(name, 1, BracketAt(name) - 1))
    IN  IF normalized \in NameMappingKeys THEN NameMapping(normalized) ELSE normalized

NormalizeParticipantName(raw) ==
    IF raw = "" THEN raw
    ELSE LET name == Strip(raw)
             normalized == Strip(CollapseSpace(name))
         IN  IF name \in NameMappingKeys THEN NameMapping(name)
             ELSE IF BracketAt(name) # 0 THEN StripBracket(name)
             ELSE IF normalized \in NameMappingKeys THEN NameMapping(normalized)
             ELSE normalized

----------------------------------------------------------------------------
(* parse_transcript: the line grammars                                     *)

NoMatch == [ok |-> FALSE, timestamp |-> "", speaker |-> "", text |-> ""]

\* a group that follows a greedy \s* or \s+ : the run of whitespace is
\* given back one character only when nothing else is left for the group
GroupAfterSpace(s) == IF LStrip(s) = "" THEN Char(s, Len(s)) ELSE LStrip(s)

\* the common tail of patterns_single_line, \s*([^:]+):\s*(.+) or, with
\* needSpace, \s+([^:]+):\s*(.+), matched on what follows the timestamp
SpeakerTextTail(ts, r, needSpace) ==
    LET c == Find(r, ":", 1)
    IN  IF /\ c >= 2
           /\ Len(r) > c
           /\ (needSpace => IsSpace(Char(r, 1)) /\ c >= 3)
        THEN [ok |-> TRUE, timestamp |-> ts,
              speaker |-> GroupAfterSpace(SubSeq(r, 1, c - 1)),
              text |-> GroupAfterSpace(From(r, c + 1))]
        ELSE NoMatch

\* patterns_single_line, tried in order with re.match; the first match wins
SingleLine(line) ==
    LET p1 == IF HasAt(line, 1, "[") /\ IsHMS(line, 2) /\ HasAt(line, 10, "]")
              THEN SpeakerTextTail(SubSeq(line, 2, 9), From(line, 11), FALSE) ELSE NoMatch
        p2 == IF HasAt(line, 1, "[") /\ IsHM(line, 2) /\ HasAt(line, 7, "]")
              THEN SpeakerTextTail(SubSeq(line, 2, 6), From(line, 8), FALSE) ELSE NoMatch
        p3 == IF IsHMS(line, 1)
              THEN SpeakerTextTail(SubSeq(line, 1, 8), From(line, 9), TRUE) ELSE NoMatch
        p4 == IF IsHM(line, 1)
              THEN SpeakerTextTail(SubSeq(line, 1, 5), From(line, 6), TRUE) ELSE NoMatch
    IN  IF p1.ok THEN p1 ELSE IF p2.ok THEN p2 ELSE IF p3.ok THEN p3 ELSE p4

\* timestamp_pattern = r'^(\d{2}:\d{2}:\d{2})$|^(\d{2}:\d{2})$'
IsTimestampLine(line) == (IsHMS(line, 1) /\ Len(line) = 8) \/ (IsHM(line, 1) /\ Len(line) = 5)

\* re.match(r'^([^:]+):\s*(.+)', line), both groups stripped as the code does
SpeakerMatch(line) ==
    LET c == Find(line, ":", 1)
    IN  IF c >= 2 /\ Len(line) > c
        THEN [ok |-> TRUE, timestamp |-> "",
              speaker |-> Strip(SubSeq(line, 1, c - 1)),
              text |-> Strip(GroupAfterSpace(From(line, c + 1)))]
        ELSE NoMatch

\* re.match(r'^[^:]+:\s*', next_line)
IsLabelLine(line) == Find(line, ":", 1) >= 2

\* re.match(r'^\d{2}:\d{2}(:\d{2})?$', speaker)
IsTimestampShaped(speaker) == IsTimestampLine(speaker)

Utterance(ts, speaker, text) == [timestamp |-> ts, speaker |-> speaker, text |-> text]

\* lines[k] of the code, k 0-based
LineAt(ls, k) == ls[k + 1]

----------------------------------------------------------------------------
(* parse_transcript: one iteration of the main loop                        *)

\* lines 902-905: skip the blank lines that follow a standalone timestamp
RECURSIVE SkipBlankLines(_, _)
SkipBlankLines(ls, k) ==
    IF k < Len(ls) /\ Strip(LineAt(ls, k)) = "" THEN SkipBlankLines(ls, k + 1) ELSE k

\* lines 926-936: absorb continuation lines; the cursor and the text so far
RECURSIVE Absorb(_, _, _)
Absorb(ls, k, text) ==
    IF k >= Len(ls) THEN [i |-> k, text |-> text]
    ELSE LET next_line == Strip(LineAt(ls, k))
         IN  IF IsTimestampLine(next_line) \/ IsLabelLine(next_line) THEN [i |-> k, text |-> text]
             ELSE IF next_line = "" THEN [i |-> k, text |-> text]
             ELSE Absorb(ls, k + 1, text \o " " \o next_line)

\* the bare branch, were it to merge with the latest utterance of the same
\* speaker wherever it stands in the list
BareStepMergeAnywhere(line, k, parsed) ==
    LET m == SpeakerMatch(line)
        normalized_speaker == NormalizeParticipantName(m.speaker)
        same == {n \in 1..Len(parsed) : parsed[n].speaker = normalized_speaker}
        n == CHOOSE x \in same : \A y \in same : y <= x
    IN  IF ~m.ok THEN [i |-> k + 1, parsed |-> parsed, branch |-> "nomatch"]
        ELSE IF IsTimestampShaped(m.speaker) \/ ~IsValidParticipant(m.speaker)
        THEN [i |-> k + 1, parsed |-> parsed, branch |-> "bare_reject"]
        ELSE IF same # {}
        THEN [i |-> k + 1,
              parsed |-> [parsed EXCEPT ![n].text = @ \o " " \o m.text],
              branch |-> "bare_merge"]
        ELSE [i |-> k + 1,
              parsed |-> Append(parsed,
                  Utterance(IF parsed # <<>> THEN parsed[Len(parsed)].timestamp ELSE "00:00:00",
                            normalized_speaker, Strip(m.text))),
              branch |-> "bare_new"]

\* the bare branch, were a line that matches no grammar to leave the cursor
\* where it is
BareStepNoAdvance(line, k, parsed) ==
    LET m == SpeakerMatch(line)
        normalized_speaker == NormalizeParticipantName(m.speaker)
        n == Len(parsed)
    IN  IF ~m.ok THEN [i |-> k, parsed |-> parsed, branch |-> "nomatch"]
        ELSE IF IsTimestampShaped(m.speaker) \/ ~IsValidParticipant(m.speaker)
        THEN [i |-> k + 1, parsed |-> parsed, branch |-> "bare_reject"]
        ELSE IF n > 0 /\ parsed[n].speaker = normalized_speaker
        THEN [i |-> k + 1,
              parsed |-> [parsed EXCEPT ![n].text = @ \o " " \o m.text],
              branch |-> "bare_merge"]
        ELSE [i |-> k + 1,
              parsed |-> Append(parsed,
                  Utterance(IF n > 0 THEN parsed[n].timestamp ELSE "00:00:00",
                            normalized_speaker, Strip(m.text))),
              branch |-> "bare_new"]

\* the bare branch, were a new utterance always to carry "00:00:00"
BareStepZeroTimestamp(line, k, parsed) ==
    LET m == SpeakerMatch(line)
        normalized_speaker == NormalizeParticipantName(m.speaker)
        n == Len(parsed)
    IN  IF ~m.ok THEN [i |-> k + 1, parsed |-> parsed, branch |-> "nomatch"]
        ELSE IF IsTimestampShaped(m.speaker) \/ ~IsValidParticipant(m.speaker)
        THEN [i |-> k + 1, parsed |-> parsed, branch |-> "bare_reject"]
        ELSE IF n > 0 /\ parsed[n].speaker = normalized_speaker
        THEN [i |-> k + 1,
              parsed |-> [parsed EXCEPT ![n].text = @ \o " " \o m.text],
              branch |-> "bare_merge"]
        ELSE [i |-> k + 1,
              parsed |-> Append(parsed,
                  Utterance("00:00:00", normalized_speaker, Strip(m.text))),
              branch |-> "bare_new"]

\* the bare branch, were a merge to put the new text in front of the old
BareStepMergeInFront(line, k, parsed) ==
    LET m == SpeakerMatch(line)
        normalized_speaker == NormalizeParticipantName(m.speaker)
        n == Len(parsed)
    IN  IF ~m.ok THEN [i |-> k + 1, parsed |-> parsed, branch |-> "nomatch"]
        ELSE IF IsTimestampShaped(m.speaker) \/ ~IsValidParticipant(m.speaker)
        THEN [i |-> k + 1, parsed |-> parsed, branch |-> "bare_reject"]
        ELSE IF n > 0 /\ parsed[n].speaker = normalized_speaker
        THEN [i |-> k + 1,
              parsed |-> [parsed EXCEPT ![n].text = m.text \o " " \o @],
              branch |-> "bare_merge"]
        ELSE [i |-> k + 1,
              parsed |-> Append(parsed,
                  Utterance(IF n > 0 THEN parsed[n].timestamp ELSE "00:00:00",
                            normalized_speaker, Strip(m.text))),
              branch |-> "bare_new"]

\* lines 945-977: the bare `speaker: text` branch applied to `line` with the
\* cursor at k
BareStep(line, k, parsed) ==
    LET m == SpeakerMatch(line)
        normalized_speaker == NormalizeParticipantName(m.speaker)
        n == Len(parsed)
    IN  IF ~m.ok THEN [i |-> k + 1, parsed |-> parsed, branch |-> "nomatch"]
        ELSE IF IsTimestampShaped(m.speaker) \/ ~IsValidParticipant(m.speaker)
        THEN [i |-> k + 1, parsed |-> parsed, branch |-> "bare_reject"]
        ELSE IF n > 0 /\ parsed[n].speaker = normalized_speaker
        THEN [i |-> k + 1,
              parsed |-> [parsed EXCEPT ![n].text = @ \o " " \o m.text],
              branch |-> "bare_merge"]
        ELSE [i |-> k + 1,
              parsed |-> Append(parsed,
                  Utterance(IF n > 0 THEN parsed[n].timestamp ELSE "00:00:00",
                            normalized_speaker, Strip(m.text))),
              branch |-> "bare_new"]

\* the single-line branch, were it to emit without asking the validator
SingleLineStepUnchecked(m, k, parsed) ==
    [i |-> k + 1,
     parsed |-> Append(parsed,
         Utterance(Strip(m.timestamp), NormalizeParticipantName(Strip(m.speaker)),
                   Strip(m.text))),
     branch |-> "single_emit"]

\* lines 865-893: the single-line branch
SingleLineStep(m, k, parsed) ==
    IF IsValidParticipant(Strip(m.speaker))
    THEN [i |-> k + 1,
          parsed |-> Append(parsed,
              Utterance(Strip(m.timestamp), NormalizeParticipantName(Strip(m.speaker)),
                        Strip(m.text))),
          branch |-> "single_emit"]
    ELSE [i |-> k + 1, parsed |-> parsed, branch |-> "single_reject"]

\* lines 895-943: the standalone-timestamp branch; when no speaker line
\* follows, control falls into the bare branch with `line` still bound to
\* the timestamp line and the cursor already moved
TimestampStep(ls, line, k, parsed) ==
    LET j  == SkipBlankLines(ls, k + 1)
        m  == IF j < Len(ls) THEN SpeakerMatch(Strip(LineAt(ls, j))) ELSE NoMatch
        ab == Absorb(ls, j + 1, m.text)
        fall == BareStep(line, j, parsed)
    IN  IF ~m.ok THEN [fall EXCEPT !.branch = "ts_fall"]
        ELSE IF ~IsValidParticipant(m.speaker)
        THEN [i |-> j + 1, parsed |-> parsed, branch |-> "ts_reject"]
        ELSE [i |-> ab.i,
              parsed |-> Append(parsed,
                  Utterance(Strip(line), Strip(NormalizeParticipantName(m.speaker)),
                            Strip(ab.text))),
              branch |-> "ts_emit"]

\* the body of `while i < len(lines)`, lines 857-977
Step(ls, k, parsed) ==
    LET line == Strip(LineAt(ls, k))
        sl   == SingleLine(line)
    IN  IF line = "" THEN [i |-> k + 1, parsed |-> parsed, branch |-> "blank"]
        ELSE IF sl.ok THEN SingleLineStep(sl, k, parsed)
        ELSE IF IsTimestampLine(line) THEN TimestampStep(ls, line, k, parsed)
        ELSE BareStep(line, k, parsed)

\* the whole call on already split lines
RECURSIVE ParseFrom(_, _, _)
ParseFrom(ls, k, parsed) ==
    IF k >= Len(ls) THEN parsed
    ELSE CHOOSE result \in {ParseFrom(ls, s.i, s.parsed) : s \in {Step(ls, k, parsed)}} : TRUE

\* transcript.split('\n')
RECURSIVE SplitLines(_)
SplitLines(text) ==
    LET nl == Find(text, "\n", 1)
    IN  IF nl = 0 THEN <<text>>
        ELSE <<SubSeq(text, 1, nl - 1)>> \o SplitLines(From(text, nl + 1))

ParseTranscript(transcript) ==
    CHOOSE result \in {ParseFrom(ls, 0, <<>>) : ls \in {SplitLines(transcript)}} : TRUE

----------------------------------------------------------------------------
(* _extract_transcript_section                                             *)

\* content.replace('\r\n', '\n').replace('\r', '\n')
RECURSIVE NormalizeNewlines(_)
NormalizeNewlines(s) ==
    IF s = "" THEN ""
    ELSE IF HasAt(s, 1, "\r\n") THEN "\n" \o NormalizeNewlines(From(s, 3))
    ELSE IF HasAt(s, 1, "\r") THEN "\n" \o NormalizeNewlines(From(s, 2))
    ELSE Char(s, 1) \o NormalizeNewlines(From(s, 2))

\* transcript_markers, each a sequence of literals joined by \s*, written
\* case-folded because every use is with re.IGNORECASE
TranscriptMarkers ==
    << <<"&book", "&seukeuripteu">>,
       <<"&book", "transcript">>,
       <<"&seukeuripteu">>,
       <<"transcript">>,
       <<"transcript">> >>

\* the marker matched at position k of the case-folded text: the position
\* after the match, 0 when there is none
RECURSIVE MarkerEnd(_, _, _)
MarkerEnd(lt, k, marker) ==
    IF ~HasAt(lt, k, Head(marker)) THEN 0
    ELSE LET e == k + Len(Head(marker))
         IN  IF Tail(marker) = <<>> THEN e ELSE MarkerEnd(lt, SkipSpace(lt, e), Tail(marker))

\* re.search(marker, text, re.IGNORECASE): the first position, 0 when absent
RECURSIVE SearchFrom(_, _, _)
SearchFrom(lt, k, marker) ==
    IF k > Len(lt) THEN 0
    ELSE IF MarkerEnd(lt, k, marker) # 0 THEN k
    ELSE SearchFrom(lt, k + 1, marker)

SearchMarker(text, marker) ==
    CHOOSE at \in {SearchFrom(lt, 1, marker) : lt \in {ToLower(text)}} : TRUE

\* the position of the first line of ls (1-based) in which the marker occurs,
\* 0 when it occurs in none
RECURSIVE MarkerLine(_, _, _)
MarkerLine(ls, n, marker) ==
    IF n > Len(ls) THEN 0
    ELSE IF SearchMarker(ls[n], marker) # 0 THEN n
    ELSE MarkerLine(ls, n + 1, marker)

IsUpper(c) == c # "" /\ Find(UpperCase, c, 1) # 0
IsLower(c) == c # "" /\ Find(LowerCase, c, 1) # 0

\* \d{1,2} followed by the literal w at position k: the position after w
DigitsThen(s, k, w) ==
    IF IsDigit(Char(s, k)) /\ IsDigit(Char(s, k + 1)) /\ HasAt(s, k + 2, w) THEN k + 2 + Len(w)
    ELSE IF IsDigit(Char(s, k)) /\ HasAt(s, k + 1, w) THEN k + 1 + Len(w)
    ELSE 0

\* re.match(r'[A-Z][a-z]{2}\s+\d{1,2},\s+\d{4}', s)
IsEnglishDate(s) ==
    LET d == SkipSpace(s, 4)
        y == DigitsThen(s, d, ",")
    IN  /\ IsUpper(Char(s, 1)) /\ IsLower(Char(s, 2)) /\ IsLower(Char(s, 3))
        /\ d > 4
        /\ y # 0
        /\ SkipSpace(s, y) > y
        /\ Len(s) >= SkipSpace(s, y) + 3
        /\ AllDigits(SubSeq(s, SkipSpace(s, y), SkipSpace(s, y) + 3))

\* re.match(r'\d{4}<nyeon>\s+\d{1,2}<wol>\s+\d{1,2}<il>', s)
IsKoreanDate(s) ==
    LET m  == SkipSpace(s, 5 + Len("&nyeon"))
        m2 == DigitsThen(s, m, "&wol")
        d  == SkipSpace(s, m2)
    IN  /\ Len(s) >= 4 /\ AllDigits(SubSeq(s, 1, 4)) /\ HasAt(s, 5, "&nyeon")
        /\ m > 5 + Len("&nyeon")
        /\ m2 # 0
        /\ d > m2
        /\ DigitsThen(s, d, "&il") # 0

\* `w in s`
RECURSIVE Contains(_, _)
Contains(s, w) ==
    IF Len(s) < Len(w) THEN FALSE
    ELSE IF HasAt(s, 1, w) THEN TRUE
    ELSE Contains(From(s, 2), w)

\* '\n'.join(ls)
RECURSIVE JoinLines(_)
JoinLines(ls) ==
    IF ls = <<>> THEN ""
    ELSE IF Len(ls) = 1 THEN ls[1]
    ELSE ls[1] \o "\n" \o JoinLines(Tail(ls))

\* lines 125-151: cut the section that starts at the marker's first match
CutSection(ls, n) ==
    LET \* 0-based start_idx, as in the code
        afterDate ==
            IF n < Len(ls) /\ (IsEnglishDate(Strip(ls[n + 1])) \/ IsKoreanDate(Strip(ls[n + 1])))
            THEN n + 1 ELSE n
        afterTitle ==
            IF afterDate < Len(ls)
               /\ (Contains(ls[afterDate + 1], " - Transcript")
                   \/ Contains(ls[afterDate + 1], " - &seukeuripteu"))
            THEN afterDate + 1 ELSE afterDate
        start_idx == IF n = 0 THEN 0 ELSE afterTitle
    IN  Strip(JoinLines(SubSeq(ls, start_idx + 1, Len(ls))))

\* lines 128-133: split the section and find the line that holds the marker
SectionAfterMarker(section, marker) ==
    CHOOSE cut \in
        {CutSection(ls, n) : <<ls, n>> \in
            {<<split, MarkerLine(split, 1, marker)>> : split \in {SplitLines(section)}}} : TRUE

RECURSIVE ExtractFrom(_, _)
ExtractFrom(content, m) ==
    IF m > Len(TranscriptMarkers) THEN content
    ELSE LET at == SearchMarker(content, TranscriptMarkers[m])
         IN  IF at # 0 THEN SectionAfterMarker(From(content, at), TranscriptMarkers[m])
             ELSE ExtractFrom(content, m + 1)

ExtractTranscriptSection(content) ==
    CHOOSE section \in {ExtractFrom(text, 1) : text \in {NormalizeNewlines(content)}} : TRUE

----------------------------------------------------------------------------
(* extract_participant_stats                                               *)

\* d[key] = val on a dict
Put(d, key, val) == [x \in DOMAIN d \cup {key} |-> IF x = key THEN val ELSE d[x]]

\* len(text.split()): the number of maximal runs of non-whitespace
RECURSIVE SkipWord(_, _)
SkipWord(s, k) == IF k <= Len(s) /\ ~IsSpace(Char(s, k)) THEN SkipWord(s, k + 1) ELSE k

RECURSIVE WordCount(_)
WordCount(text) ==
    LET t == LStrip(text)
    IN  IF t = "" THEN 0 ELSE 1 + WordCount(From(t, SkipWord(t, 1)))

\* the value the defaultdict makes for a speaker it has not seen, lines 991-996
StatsDefault == [speak_count |-> 0, total_words |-> 0, timestamps |-> <<>>, statements |-> <<>>]

\* the same loop body, were it to set the count to 1 instead of adding 1
AddEntryOverwrite(st, entry) ==
    LET old == IF entry.speaker \in DOMAIN st THEN st[entry.speaker] ELSE StatsDefault
    IN  Put(st, entry.speaker,
            [speak_count |-> 1,
             total_words |-> old.total_words + WordCount(entry.text),
             timestamps  |-> Append(old.timestamps, entry.timestamp),
             statements  |-> Append(old.statements, entry.text)])

\* one pass of `for entry in parsed_transcript`, lines 998-1006
AddEntry(st, entry) ==
    LET old == IF entry.speaker \in DOMAIN st THEN st[entry.speaker] ELSE StatsDefault
    IN  Put(st, entry.speaker,
            [speak_count |-> old.speak_count + 1,
             total_words |-> old.total_words + WordCount(entry.text),
             timestamps  |-> Append(old.timestamps, entry.timestamp),
             statements  |-> Append(old.statements, entry.text)])

RECURSIVE StatsFrom(_, _, _)
StatsFrom(parsed, k, st) ==
    IF k > Len(parsed) THEN st
    ELSE CHOOSE r \in {StatsFrom(parsed, k + 1, next) : next \in {AddEntry(st, parsed[k])}} : TRUE

\* dict(stats): a function from the speakers seen to their records
ExtractParticipantStats(parsed) == StatsFrom(parsed, 1, <<>>)

Range(q) == {q[k] : k \in DOMAIN q}

\* the order of the keys, were a speaker seen again moved to the end
AddKeyMovingToEnd(keys, entry) ==
    Append(SelectSeq(keys, LAMBDA x : x # entry.speaker), entry.speaker)

\* stats[speaker], line 1003: the defaultdict inserts a speaker it has not
\* seen behind the keys it holds, and dict(stats) keeps that order
AddKey(keys, entry) ==
    IF entry.speaker \in Range(keys) THEN keys ELSE Append(keys, entry.speaker)

RECURSIVE StatsKeysFrom(_, _, _)
StatsKeysFrom(parsed, k, keys) ==
    IF k > Len(parsed) THEN keys
    ELSE StatsKeysFrom(parsed, k + 1, AddKey(keys, parsed[k]))

\* list(extract_participant_stats(parsed).keys())
StatsKeys(parsed) == StatsKeysFrom(parsed, 1, <<>>)

----------------------------------------------------------------------------
(* _normalize_document                                                     *)

\* A document is a function from the keys it holds to values; a value is a
\* tagged sequence of strings so that values of every Python type compare.
Str(x)      == [t |-> "str", v |-> <<x>>]
None        == [t |-> "none", v |-> <<>>]
List(q)     == [t |-> "list", v |-> q]
DateTime(x) == [t |-> "datetime", v |-> <<x>>]

\* bool(value)
Truthy(val) ==
    CASE val.t = "str"      -> val.v[1] # ""
      [] val.t = "none"     -> FALSE
      [] val.t = "list"     -> val.v # <<>>
      [] val.t = "datetime" -> TRUE

\* dict.get(key, default)
Get(d, key, default) == IF key \in DOMAIN d THEN d[key] ELSE default

\* code point order of the characters of the model; the escapes of the
\* non-ASCII words and of the byte-order mark come after ASCII
CodeOrder ==
    "\t\n\r !#'()*+,-./0123456789:;@ABCDEFGHIJKLMNOPQRSTUVWXYZ[]_abcdefghijklmnopqrstuvwxyz&~"

\* a < b on str
RECURSIVE StrLess(_, _)
StrLess(a, b) ==
    IF b = "" THEN FALSE
    ELSE IF a = "" THEN TRUE
    ELSE IF Char(a, 1) = Char(b, 1) THEN StrLess(From(a, 2), From(b, 2))
    ELSE Find(CodeOrder, Char(a, 1), 1) < Find(CodeOrder, Char(b, 1), 1)

\* sorted(list(S))
RECURSIVE Sorted(_)
Sorted(S) ==
    IF S = {} THEN <<>>
    ELSE CHOOSE q \in
             {<<least>> \o Sorted(S \ {least}) : least \in
                 {x \in S : \A y \in S \ {x} : StrLess(x, y)}} : TRUE

\* the speakers collected, were the Validator not asked
AllSpeakers(parsed) ==
    {Strip(parsed[n].speaker) : n \in
        {n \in 1..Len(parsed) : Strip(parsed[n].speaker) # ""}}

\* _extract_participants_from_transcript, lines 672-691
ValidSpeakers(parsed) ==
    {Strip(parsed[n].speaker) : n \in
        {n \in 1..Len(parsed) :
            /\ Strip(parsed[n].speaker) # ""
            /\ IsValidParticipant(Strip(parsed[n].speaker))}}

ExtractParticipantsFromTranscript(transcript) ==
    CHOOSE sorted \in
        {Sorted(participants) : participants \in
            {ValidSpeakers(parsed) : parsed \in {ParseTranscript(transcript)}}} : TRUE

DigitValue(c) == Find("0123456789", c, 1) - 1

TwoDigits(s, k) == 10 * DigitValue(Char(s, k)) + DigitValue(Char(s, k + 1))

\* HH:MM at position k with hour and minute in range
IsClock(s, k) == IsHM(s, k) /\ TwoDigits(s, k) < 24 /\ TwoDigits(s, k + 3) < 60

\* datetime.fromisoformat accepts time_str: YYYY-MM-DD, then optionally one
\* separator character and HH:MM[:SS], then optionally +HH:MM or -HH:MM
\* (a fraction never reaches the call: lines 203-214 cut it out)
IsIsoFormat(s) ==
    LET afterTime == IF IsHMS(s, 12) THEN 20 ELSE 17
    IN  /\ Len(s) >= 10
        /\ AllDigits(SubSeq(s, 1, 4)) /\ Char(s, 5) = "-"
        /\ AllDigits(SubSeq(s, 6, 7)) /\ Char(s, 8) = "-"
        /\ AllDigits(SubSeq(s, 9, 10))
        /\ TwoDigits(s, 6) \in 1..12 /\ TwoDigits(s, 9) \in 1..31
        /\ \/ Len(s) = 10
           \/ /\ IsClock(s, 12)
              /\ IsHMS(s, 12) => TwoDigits(s, 18) < 60
              /\ \/ Len(s) = afterTime - 1
                 \/ /\ Len(s) = afterTime + 5
                    /\ Char(s, afterTime) \in {"+", "-"}
                    /\ IsClock(s, afterTime + 1)

\* min over '+', '-', 'Z' of time_str.find(char, dot_idx), else len(time_str);
\* positions are 1-based here
TzStart(s, dot) ==
    LET cand == {Find(s, "+", dot), Find(s, "-", dot), Find(s, "Z", dot)} \ {0}
    IN  IF cand = {} THEN Len(s) + 1 ELSE CHOOSE x \in cand : \A y \in cand : x <= y

\* `if time_str.endswith('Z'): time_str = time_str[:-1] + '+00:00'`
ZuluToOffset(s) ==
    IF s # "" /\ Char(s, Len(s)) = "Z" THEN SubSeq(s, 1, Len(s) - 1) \o "+00:00" ELSE s

\* lines 195-217: the string handed to datetime.fromisoformat
IsoTimeStr(created_time) ==
    LET z   == ZuluToOffset(created_time)
        dot == Find(z, ".", 1)
    IN  IF dot = 0 THEN z
        ELSE ZuluToOffset(SubSeq(z, 1, dot - 1) \o From(z, TzStart(z, dot)))

\* the title conversion, were it to overlook `name`
ResolveTitleWithoutName(d) ==
    IF "title" \in DOMAIN d THEN d
    ELSE Put(d, "title", Str("Untitled Meeting"))

\* lines 174-176
ResolveTitle(d) ==
    IF "title" \in DOMAIN d THEN d
    ELSE Put(d, "title", Get(d, "name", Str("Untitled Meeting")))

\* lines 178-185
ResolveTranscript(d) ==
    IF "transcript" \in DOMAIN d /\ Truthy(d["transcript"]) THEN d
    ELSE LET content == Get(d, "content", Str(""))
         IN  IF Truthy(content)
             THEN Put(d, "transcript", Str(ExtractTranscriptSection(content.v[1])))
             ELSE Put(d, "transcript", Str(""))

\* the date conversion, were it to run whether or not a date is present
ResolveDateAlways(d, now) ==
    LET created_time == Get(d, "createdTime", None)
    IN  IF ~Truthy(created_time) THEN d
        ELSE IF created_time.t = "str"
        THEN IF IsIsoFormat(IsoTimeStr(created_time.v[1]))
             THEN Put(d, "date", DateTime(IsoTimeStr(created_time.v[1])))
             ELSE Put(d, "date", DateTime(now))
        ELSE IF created_time.t = "datetime" THEN Put(d, "date", created_time)
        ELSE d

\* lines 187-225; now is the value datetime.now() returns if it is called
ResolveDate(d, now) ==
    LET created_time == Get(d, "createdTime", None)
    IN  IF "date" \in DOMAIN d /\ d["date"] # None THEN d
        ELSE IF ~Truthy(created_time) THEN d
        ELSE IF created_time.t = "str"
        THEN IF IsIsoFormat(IsoTimeStr(created_time.v[1]))
             THEN Put(d, "date", DateTime(IsoTimeStr(created_time.v[1])))
             ELSE Put(d, "date", DateTime(now))
        ELSE IF created_time.t = "datetime" THEN Put(d, "date", created_time)
        ELSE d

\* lines 227-233
ResolveParticipants(d) ==
    LET transcript == Get(d, "transcript", Str(""))
    IN  IF "participants" \in DOMAIN d /\ Truthy(d["participants"]) THEN d
        ELSE IF ~Truthy(transcript) THEN d
        ELSE CHOOSE r \in
                 {IF participants # <<>> THEN Put(d, "participants", List(participants)) ELSE d :
                     participants \in {ExtractParticipantsFromTranscript(transcript.v[1])}} : TRUE

\* `normalized = doc`, were the conversions to work on the caller's record
DocAlias(doc) == [normalized |-> doc, shared |-> TRUE]

\* `normalized = doc.copy()`, line 172: a new record with the same fields;
\* shared tells whether writes to it reach the caller's record
DocCopy(doc) == [normalized |-> doc, shared |-> FALSE]

\* the short-circuit test, were it to ask for a date as well
IsCanonicalWithDate(doc) ==
    /\ "title" \in DOMAIN doc /\ "transcript" \in DOMAIN doc /\ Truthy(doc["transcript"])
    /\ "date" \in DOMAIN doc /\ doc["date"] # None

\* the lines 167-169
IsCanonical(doc) ==
    "title" \in DOMAIN doc /\ "transcript" \in DOMAIN doc /\ Truthy(doc["transcript"])

\* the call: the record returned, and the caller's record as the call leaves
\* it. The four conversions run in turn, each on the value the one before
\* has left; each assigns keys of `normalized` and changes no nested value.
NormalizeDocumentCall(doc, now) ==
    IF IsCanonical(doc)
    THEN [returned |-> doc, caller |-> doc]
    ELSE CHOOSE call \in
             {[returned |-> normalized, caller |-> IF copy.shared THEN normalized ELSE doc] :
                 <<copy, normalized>> \in
                     {<<c, ResolveParticipants(d3)>> : <<c, d3>> \in
                         {<<c, ResolveDate(d2, now)>> : <<c, d2>> \in
                             {<<c, ResolveTranscript(d1)>> : <<c, d1>> \in
                                 {<<c, ResolveTitle(c.normalized)>> : c \in {DocCopy(doc)}}}}}} : TRUE

NormalizeDocument(doc, now) == NormalizeDocumentCall(doc, now).returned

----------------------------------------------------------------------------
(* Inputs                                                                  *)

MaxLines == 4

\* the lines a transcript is made of: blank, standalone timestamp, the
\* single-line form with a valid and with a noise speaker, bare lines of two
\* speakers, free text, a noise label, and a label with a bracketed annotation
LineSet ==
    { "",
      "00:01",
      "[00:00:03] A: x",
      "00:07 *s: q",
      " A: hi",
      "B: yo",
      "more text",
      "12: n",
      "12[x]: z" }

RECURSIVE SeqsUpTo(_, _)
SeqsUpTo(S, n) ==
    IF n = 0 THEN {<<>>}
    ELSE LET shorter == SeqsUpTo(S, n - 1)
         IN  shorter \cup {Append(q, x) : q \in {r \in shorter : Len(r) = n - 1}, x \in S}

\* str.split('\n') returns at least one line
Transcripts == SeqsUpTo(LineSet, MaxLines) \ {<<>>}

NameSet ==
    { "", " ", "A", " A ", "a b", "a  b", "a\tb", "Nam", " Nam", "Nam  Ti&en", "Nam Ph&am Ti&en",
      "Nakamura  Chiko", "Geonwoo Shin", "Nam Pham", "A[x]", "A [x]", "Nam[x]", "Nam [ x ][y]",
      "a  b[x]", "Nam  Ti&en[x]", "[x]", "A[x", "A]x[", "A[x]y", "12[x]", "~[x]", "~A", "*s",
      "Thomas Shin", "Chiko Nakamura", "A\t[x]", "a[b]c[d]", "Geonwoo  Shin[x]", "x  y  z" }

\* candidates of every kind of noise the validator is to reject
NoiseCandidates ==
    { "Transcription ended after 00", "transcription  ended", "SESSION ENDED",
      "Session ended after 01", "Meeting ended after 00", "The Meeting  ended after",
      "This editable transcript", "You should review", "Please provide feedback", "Get  tips",
      "* item", "*", "Ooo file", "&cheombupail 1", "&chodaedoem", "Gemini&ga",
      "&sujeong &ganeunghan x", "2025&nyeon 7&wol", "12:34:56", "12:34", "&hu &seukeuripteu",
      "00", "2025", "Attachments Project TRH", "Project TRH", "project  trh",
      "Jake Jang's Presentation", "Theo Lee&nimui &balpyo", "~~A", "", "  ", "~", " ~ ", "~ 12",
      "\t12\n", "~* x" }

\* names, and near misses of the noise patterns
OrdinaryCandidates ==
    { "Jane Doe", "A", "Nam Ph&am Ti&en", "12:34 pm", "12:3", "7 of 9", "12a", "Project TRH 2",
      "My Project TRH", "Presentation", "Jake's Presentation notes", "~ A", "~Jane", " Jane\t",
      "Transcription", "A Session ended", "ended Transcription", "Mr *", "2025 &nyeon", "Gettips",
      "Oo", "Sooo", "12[x]", "[00", "Meeting ended" }

Candidates == NoiseCandidates \cup OrdinaryCandidates \cup NameSet

\* a key the document does not hold
Absent == [t |-> "absent", v |-> <<>>]

DocKeys == {"title", "name", "transcript", "content", "date", "createdTime", "participants"}

MakeDoc(f) == [k \in {k \in DocKeys : f[k] # Absent} |-> f[k]]

\* documents of the native schema, of the Drive-export schema and mixes
Docs ==
    {MakeDoc(f) : f \in
        [title        : {Absent, Str("Weekly")},
         name         : {Absent, Str("SYB call")},
         transcript   : {Absent, None, Str(""), Str("00:01\nA: hi\nB: yo")},
         content      : {Absent, Str(""), Str("notes"), Str("B: yo\n12[x]: z"),
                         Str("notes\r\nTranscript\r\n"),
                         Str("x\n&book Transcript\nNov 17, 2025\nc - Transcript\n00:01\nNam: a")},
         date         : {Absent, None, DateTime("2025-11-01T09:00:00")},
         createdTime  : {Absent, Str(""), Str("2025-11-17T10:17:47.962Z"), Str("17/11/2025"),
                         DateTime("2025-11-17T10:17:47")},
         participants : {Absent, List(<<>>), List(<<"Zed">>)}]}

\* the values datetime.now() may return
Clock == {"now@1", "now@2"}

NoDoc == <<>>

\* lines whose labels are aliases of one person, the canonical name itself,
\* and one line of each other kind
AliasLineSet ==
    { "",
      "00:02",
      "00:01 Nam Ti&en: c d",
      "Nam: a",
      "Nam Ph&am Ti&en: b",
      "Nam Pham: f g h",
      "more" }

AliasTranscripts == SeqsUpTo(AliasLineSet, MaxLines) \ {<<>>}

MaxPieces == 3

\* what a content is put together from: text, the three line ends, a
\* speaker line, a marker and a blank
Pieces == <<"notes", "\r\n", "\n", "\r", "A: hi", "Transcript", " ">>

RECURSIVE Concat(_)
Concat(q) == IF q = <<>> THEN "" ELSE Head(q) \o Concat(Tail(q))

Contents == {Concat(q) : q \in SeqsUpTo({Pieces[k] : k \in DOMAIN Pieces}, MaxPieces)}

MaxSectionLines == 4

\* lines of an export around its marker: text, the two halves of the
\* two-part marker, a date line, a title line (which holds the marker as
\* well), a speaker line and the marker inside a sentence
MarkedLineSet ==
    {"x", "&book", "Transcript", "Nov 7, 2025", "c - Transcript", "A: hi", "a TRANSCRIPT b"}

MarkedContents == {JoinLines(ls) : ls \in SeqsUpTo(MarkedLineSet, MaxSectionLines) \ {<<>>}}

MaxUtterances == 3

\* utterance lists of any origin: speakers and texts may be empty, texts hold
\* runs of spaces
UtteranceSet ==
    {Utterance(ts, speaker, text) :
        ts \in {"00:00:00", "00:01"}, speaker \in {"A", "B", ""}, text \in {"hi", "a b  c", ""}}

UtteranceLists == SeqsUpTo(UtteranceSet, MaxUtterances)

\* no dictionary returned yet
NoStats == [t |-> "none"]

----------------------------------------------------------------------------
(* parse_transcript as a state machine: one action per branch of the loop  *)

AggIdle ==
    /\ meetings = <<>> /\ sorted_meetings = <<>> /\ n_done = 0
    /\ aggregated_transcript = <<>> /\ all_participants = {} /\ global_stats = <<>>
    /\ calls = <<>>

MoveIdle ==
    /\ recordings = <<>> /\ failed_recordings = <<>> /\ failed_ids = None
    /\ failed_documents = None /\ dry_run = TRUE /\ documents = <<>> /\ query = {}
    /\ ops = <<>>

FetchIdle ==
    /\ filters = None /\ and_list = <<>> /\ conditions = <<>> /\ filters_before = None
    /\ mongo_filters = None /\ date_filter = None

ExtractIdle == content_in = "" /\ section_out = <<>> /\ AggIdle /\ MoveIdle /\ FetchIdle

ParseIdle ==
    name_in = "" /\ name_out = <<>> /\ doc_in = NoDoc /\ doc_out = <<>> /\ ExtractIdle

Init ==
    /\ lines \in Transcripts
    /\ i = 0
    /\ parsed_lines = <<>>
    /\ pc = "scan"
    /\ branch = "start"
    /\ stats = NoStats /\ stats_keys = <<>>
    /\ ParseIdle

CurrentLine == Strip(LineAt(lines, i))

Scanning == pc = "scan" /\ i < Len(lines)

\* the effect of one iteration
Iterate ==
    LET s == Step(lines, i, parsed_lines)
    IN  /\ i' = s.i
        /\ parsed_lines' = s.parsed
        /\ branch' = s.branch
        /\ UNCHANGED <<lines, pc, name_in, name_out, doc_in, doc_out, stats, stats_keys, content_in, section_out, aggVars, moveVars, fetchVars>>

SkipBlank ==
    /\ Scanning
    /\ CurrentLine = ""
    /\ Iterate

SingleLineBranch ==
    /\ Scanning
    /\ CurrentLine # ""
    /\ SingleLine(CurrentLine).ok
    /\ Iterate

TimestampBranch ==
    /\ Scanning
    /\ CurrentLine # ""
    /\ ~SingleLine(CurrentLine).ok
    /\ IsTimestampLine(CurrentLine)
    /\ Iterate

BareSpeakerBranch ==
    /\ Scanning
    /\ CurrentLine # ""
    /\ ~SingleLine(CurrentLine).ok
    /\ ~IsTimestampLine(CurrentLine)
    /\ SpeakerMatch(CurrentLine).ok
    /\ Iterate

NoMatchBranch ==
    /\ Scanning
    /\ CurrentLine # ""
    /\ ~SingleLine(CurrentLine).ok
    /\ ~IsTimestampLine(CurrentLine)
    /\ ~SpeakerMatch(CurrentLine).ok
    /\ Iterate

\* `return parsed_lines`
Return ==
    /\ pc = "scan"
    /\ i >= Len(lines)
    /\ pc' = "done"
    /\ UNCHANGED <<lines, i, parsed_lines, branch, name_in, name_out, doc_in, doc_out, stats, stats_keys, content_in, section_out, aggVars, moveVars, fetchVars>>

\* extract_participant_stats called on the list returned
ExtractStats ==
    /\ pc = "done"
    /\ stats' = ExtractParticipantStats(parsed_lines)
    /\ stats_keys' = StatsKeys(parsed_lines)
    /\ pc' = "stats"
    /\ UNCHANGED <<lines, i, parsed_lines, branch, name_in, name_out, doc_in, doc_out,
                   content_in, section_out, aggVars, moveVars, fetchVars>>

Next ==
    \/ SkipBlank
    \/ SingleLineBranch
    \/ TimestampBranch
    \/ BareSpeakerBranch
    \/ NoMatchBranch
    \/ Return
    \/ ExtractStats

Spec == Init /\ [][Next]_vars

\* parse_transcript and extract_participant_stats on transcripts whose
\* speakers go by several labels
InitAlias ==
    /\ lines \in AliasTranscripts
    /\ i = 0
    /\ parsed_lines = <<>>
    /\ pc = "scan"
    /\ branch = "start"
    /\ stats = NoStats /\ stats_keys = <<>>
    /\ ParseIdle

SpecAlias == InitAlias /\ [][Next]_vars

----------------------------------------------------------------------------
(* extract_participant_stats called on an utterance list of any origin     *)

InitStats ==
    /\ parsed_lines \in UtteranceLists
    /\ pc = "done"
    /\ lines = <<"">> /\ i = 1 /\ branch = "start"
    /\ stats = NoStats /\ stats_keys = <<>>
    /\ ParseIdle

NextStats == ExtractStats

SpecStats == InitStats /\ [][NextStats]_vars

----------------------------------------------------------------------------
(* _normalize_participant_name called once and then on its own result      *)

NameIdle ==
    /\ lines = <<"">> /\ i = 0 /\ parsed_lines = <<>> /\ branch = "start" /\ stats = NoStats /\ stats_keys = <<>>
    /\ ExtractIdle

InitName ==
    /\ name_in \in NameSet
    /\ name_out = <<>>
    /\ pc = "name"
    /\ NameIdle
    /\ doc_in = NoDoc /\ doc_out = <<>>

NormalizeName ==
    /\ pc = "name"
    /\ name_out' = <<NormalizeParticipantName(name_in)>>
    /\ pc' = "name_once"
    /\ UNCHANGED <<lines, i, parsed_lines, branch, name_in, doc_in, doc_out, stats, stats_keys, content_in, section_out, aggVars, moveVars, fetchVars>>

NormalizeNameAgain ==
    /\ pc = "name_once"
    /\ name_out' = Append(name_out, NormalizeParticipantName(name_out[1]))
    /\ pc' = "name_twice"
    /\ UNCHANGED <<lines, i, parsed_lines, branch, name_in, doc_in, doc_out, stats, stats_keys, content_in, section_out, aggVars, moveVars, fetchVars>>

NextName == NormalizeName \/ NormalizeNameAgain

SpecName == InitName /\ [][NextName]_vars

----------------------------------------------------------------------------
(* _extract_transcript_section called on a content                         *)

InitExtract ==
    /\ content_in \in Contents \cup MarkedContents
    /\ section_out = <<>>
    /\ pc = "extract"
    /\ lines = <<"">> /\ i = 0 /\ parsed_lines = <<>> /\ branch = "start" /\ stats = NoStats /\ stats_keys = <<>>
    /\ name_in = "" /\ name_out = <<>> /\ doc_in = NoDoc /\ doc_out = <<>>
    /\ AggIdle /\ MoveIdle /\ FetchIdle

Extract ==
    /\ pc = "extract"
    /\ section_out' = <<ExtractTranscriptSection(content_in)>>
    /\ pc' = "extracted"
    /\ UNCHANGED <<lines, i, parsed_lines, branch, name_in, name_out, doc_in, doc_out, stats, stats_keys,
                   content_in, aggVars, moveVars, fetchVars>>

NextExtract == Extract

SpecExtract == InitExtract /\ [][NextExtract]_vars

----------------------------------------------------------------------------
(* _is_valid_participant called twice on the same candidate                *)

InitValid ==
    /\ name_in \in Candidates
    /\ name_out = <<>>
    /\ pc = "valid"
    /\ NameIdle
    /\ doc_in = NoDoc /\ doc_out = <<>>

Validate ==
    /\ pc = "valid"
    /\ name_out' = <<IsValidParticipant(name_in)>>
    /\ pc' = "valid_once"
    /\ UNCHANGED <<lines, i, parsed_lines, branch, name_in, doc_in, doc_out, stats, stats_keys, content_in, section_out, aggVars, moveVars, fetchVars>>

ValidateAgain ==
    /\ pc = "valid_once"
    /\ name_out' = Append(name_out, IsValidParticipant(name_in))
    /\ pc' = "valid_twice"
    /\ UNCHANGED <<lines, i, parsed_lines, branch, name_in, doc_in, doc_out, stats, stats_keys, content_in, section_out, aggVars, moveVars, fetchVars>>

NextValid == Validate \/ ValidateAgain

SpecValid == InitValid /\ [][NextValid]_vars

----------------------------------------------------------------------------
(* _normalize_document called once and then on its own result              *)

InitDoc ==
    /\ doc_in \in Docs
    /\ doc_out = <<>>
    /\ pc = "doc"
    /\ NameIdle
    /\ name_in = "" /\ name_out = <<>>

NormalizeDoc ==
    /\ pc = "doc"
    /\ \E now \in Clock :
           \E call \in {NormalizeDocumentCall(doc_in, now)} :
               /\ doc_out' = <<call.returned>>
               /\ doc_in' = call.caller
    /\ pc' = "doc_once"
    /\ UNCHANGED <<lines, i, parsed_lines, branch, name_in, name_out, stats, stats_keys, content_in, section_out, aggVars, moveVars, fetchVars>>

NormalizeDocAgain ==
    /\ pc = "doc_once"
    /\ \E now \in Clock : doc_out' = Append(doc_out, NormalizeDocument(doc_out[1], now))
    /\ pc' = "doc_twice"
    /\ UNCHANGED <<lines, i, parsed_lines, branch, name_in, name_out, doc_in, stats, stats_keys, content_in, section_out, aggVars, moveVars, fetchVars>>

NextDoc == NormalizeDoc \/ NormalizeDocAgain

SpecDoc == InitDoc /\ [][NextDoc]_vars

----------------------------------------------------------------------------
(* analyze_aggregated_meetings                                             *)

MaxMeetings == 2

\* datetime.min
DateTimeMin == DateTime("0001-01-01T00:00:00")

\* the key of line 1227: x.get('date', datetime.min)
SortKey(x) == Get(x, "date", DateTimeMin)

\* a datetime carrying a UTC offset; the model writes it behind the seconds
IsAware(val) == val.t = "datetime" /\ Len(val.v[1]) > 19

\* a < b raises TypeError unless both are datetimes, both naive or both aware
Comparable(a, b) == a.t = "datetime" /\ b.t = "datetime" /\ IsAware(a) = IsAware(b)

\* a < b on two comparable datetimes (the aware ones of the model all have
\* the offset +00:00, so the local times decide)
KeyLess(a, b) == StrLess(SubSeq(a.v[1], 1, 19), SubSeq(b.v[1], 1, 19))

\* sorted() compares every element with another one at least once: with two
\* or more elements it raises as soon as some pair cannot be compared
SortRaises(ms) ==
    /\ Len(ms) >= 2
    /\ \E a, b \in DOMAIN ms : ~Comparable(SortKey(ms[a]), SortKey(ms[b]))

\* the sort were it to place each document before its equals
RECURSIVE InsertBeforeEquals(_, _)
InsertBeforeEquals(q, x) ==
    IF q = <<>> THEN <<x>>
    ELSE IF KeyLess(SortKey(q[1]), SortKey(x))
         THEN <<q[1]>> \o InsertBeforeEquals(Tail(q), x)
         ELSE <<x>> \o q

\* sorted() is stable: x goes behind every element whose key is not greater
RECURSIVE InsertByKey(_, _)
InsertByKey(q, x) ==
    IF q = <<>> THEN <<x>>
    ELSE IF KeyLess(SortKey(x), SortKey(q[1]))
         THEN <<x>> \o q
         ELSE <<q[1]>> \o InsertByKey(Tail(q), x)

\* sorted(meetings, key=...), line 1227, when it does not raise
RECURSIVE SortedMeetings(_)
SortedMeetings(ms) ==
    IF ms = <<>> THEN <<>>
    ELSE InsertByKey(SortedMeetings(SubSeq(ms, 1, Len(ms) - 1)), ms[Len(ms)])

\* lines 1231-1233: the date as the section header shows it
DateText(meeting) ==
    LET date == Get(meeting, "date", Str("Unknown Date"))
    IN  CASE date.t = "datetime" -> SubSeq(date.v[1], 1, 10)
          [] date.t = "none"     -> "None"
          [] date.t = "str"      -> date.v[1]

\* f"\n\n=== Meeting: {title} ({date}) ===\n\n", line 1253
SectionHeader(meeting) ==
    "\n\n=== Meeting: " \o Get(meeting, "title", Str("Untitled")).v[1]
        \o " (" \o DateText(meeting) \o ") ===\n\n"

ParseCall(transcript) == [fn |-> "parse_transcript", arg |-> transcript]

\* lines 1238-1243: the names the document adds to all_participants, and the
\* call of parse_transcript that _extract_participants_from_transcript makes
MeetingParticipants(meeting, transcript) ==
    IF "participants" \in DOMAIN meeting
    THEN [names |-> {meeting["participants"].v[n] : n \in DOMAIN meeting["participants"].v},
          calls |-> <<>>]
    ELSE CHOOSE r \in
             {[names |-> {extracted[n] : n \in DOMAIN extracted},
               calls |-> <<ParseCall(transcript)>>] :
                 extracted \in {ExtractParticipantsFromTranscript(transcript)}} : TRUE

\* the addition of lines 1249-1251, were it an assignment
AddTotalsOverwrite(totals, meeting_stats) ==
    [speaker \in DOMAIN totals \cup DOMAIN meeting_stats |->
        IF speaker \in DOMAIN meeting_stats
        THEN [speak_count |-> meeting_stats[speaker].speak_count,
              total_words |-> meeting_stats[speaker].total_words]
        ELSE totals[speaker]]

\* lines 1249-1251: the document's counts added to the defaultdict
AddTotals(totals, meeting_stats) ==
    [speaker \in DOMAIN totals \cup DOMAIN meeting_stats |->
        LET old == IF speaker \in DOMAIN totals THEN totals[speaker]
                   ELSE [speak_count |-> 0, total_words |-> 0]
        IN  IF speaker \in DOMAIN meeting_stats
            THEN [speak_count |-> old.speak_count + meeting_stats[speaker].speak_count,
                  total_words |-> old.total_words + meeting_stats[speaker].total_words]
            ELSE old]

\* the documents the aggregation is given: dated, undated (no date key, or
\* a null date), with and without transcript and participants
MeetingDates ==
    {Absent, None, DateTime("2025-11-03T09:00:00"), DateTime("2025-11-01T09:00:00"),
     DateTime("2025-11-02T10:17:47+00:00")}

MeetingSet ==
    {MakeDoc([k \in DocKeys |->
                 CASE k = "title" -> Str("Weekly")
                   [] k = "transcript" -> transcript
                   [] k = "date" -> date
                   [] OTHER -> Absent]) :
         transcript \in {Str(""), Str("A: hi"), Str("B: yo ho\nA: x y")}, date \in MeetingDates}
    \cup
    {MakeDoc([k \in DocKeys |->
                 CASE k = "title" -> Str("Sync")
                   [] k = "transcript" -> transcript
                   [] k = "participants" -> List(<<"Zed">>)
                   [] OTHER -> Absent]) :
         transcript \in {Absent, Str("A: hi")}}

MeetingLists == SeqsUpTo(MeetingSet, MaxMeetings)

InitAgg ==
    /\ meetings \in MeetingLists
    /\ sorted_meetings = <<>> /\ n_done = 0
    /\ aggregated_transcript = <<>> /\ all_participants = {} /\ global_stats = <<>>
    /\ calls = <<>>
    /\ pc = "agg"
    /\ lines = <<"">> /\ i = 0 /\ parsed_lines = <<>> /\ branch = "start" /\ stats = NoStats /\ stats_keys = <<>>
    /\ name_in = "" /\ name_out = <<>> /\ doc_in = NoDoc /\ doc_out = <<>>
    /\ content_in = "" /\ section_out = <<>>
    /\ MoveIdle /\ FetchIdle

parseVars ==
    <<lines, i, parsed_lines, branch, name_in, name_out, doc_in, doc_out, stats, stats_keys, content_in,
      section_out>>

\* `if not meetings: return None`, lines 1215-1217
AggNothing ==
    /\ pc = "agg"
    /\ meetings = <<>>
    /\ pc' = "agg_returned"
    /\ UNCHANGED <<parseVars, aggVars, moveVars, fetchVars>>

\* line 1227, the comparison raising TypeError: the call ends there
AggSortRaises ==
    /\ pc = "agg"
    /\ meetings # <<>>
    /\ SortRaises(meetings)
    /\ pc' = "agg_raised"
    /\ UNCHANGED <<parseVars, aggVars, moveVars, fetchVars>>

\* line 1227
AggSort ==
    /\ pc = "agg"
    /\ meetings # <<>>
    /\ ~SortRaises(meetings)
    /\ sorted_meetings' = SortedMeetings(meetings)
    /\ pc' = "agg_loop"
    /\ UNCHANGED <<parseVars, meetings, n_done, aggregated_transcript, all_participants,
                   global_stats, calls, moveVars, fetchVars>>

\* one pass of `for meeting in sorted_meetings`, lines 1229-1254
AggMeeting ==
    /\ pc = "agg_loop"
    /\ n_done < Len(sorted_meetings)
    /\ LET meeting    == sorted_meetings[n_done + 1]
           transcript == Get(meeting, "transcript", Str("")).v[1]
       IN  \E found \in {MeetingParticipants(meeting, transcript)} :
           \E meeting_stats \in {ExtractParticipantStats(ParseTranscript(transcript))} :
               /\ all_participants' = all_participants \cup found.names
               /\ calls' = calls \o found.calls \o <<ParseCall(transcript)>>
               /\ global_stats' = AddTotals(global_stats, meeting_stats)
               /\ aggregated_transcript' =
                      aggregated_transcript \o <<SectionHeader(meeting), transcript>>
    /\ n_done' = n_done + 1
    /\ UNCHANGED <<parseVars, pc, meetings, sorted_meetings, moveVars, fetchVars>>

\* lines 1338-1347: the prompt built from the merged text goes to the model
AggGenerate ==
    /\ pc = "agg_loop"
    /\ n_done = Len(sorted_meetings)
    /\ calls' = Append(calls, [fn |-> "generate_content", arg |-> aggregated_transcript])
    /\ pc' = "agg_returned"
    /\ UNCHANGED <<parseVars, meetings, sorted_meetings, n_done, aggregated_transcript,
                   all_participants, global_stats, moveVars, fetchVars>>

NextAgg == AggNothing \/ AggSortRaises \/ AggSort \/ AggMeeting \/ AggGenerate

SpecAgg == InitAgg /\ [][NextAgg]_vars

----------------------------------------------------------------------------
(* move_failed_recordings (src/utils/move_failed_recordings.py)            *)

MaxBatch == 2

IsHexChar(c) == Find("0123456789abcdefABCDEF", c, 1) # 0

\* `isinstance(id_str, str) and len(id_str) == 24`, and ObjectId(id_str)
\* accepting it: 24 hexadecimal digits
IsObjectIdString(id_str) ==
    Len(id_str) = 24 /\ \A k \in 1..24 : IsHexChar(Char(id_str, k))

\* ObjectId(id_str), written as str() shows it
ObjectId(id_str) == ToLower(id_str)

\* lines 378-388: the ids that convert, in order
RECURSIVE ObjectIds(_)
ObjectIds(ids) ==
    IF ids = <<>> THEN <<>>
    ELSE IF IsObjectIdString(ids[1])
         THEN <<ObjectId(ids[1])>> \o ObjectIds(Tail(ids))
         ELSE ObjectIds(Tail(ids))

\* the _id values a collection holds
IdsOf(collection) == {collection[k]["_id"] : k \in DOMAIN collection}

\* source_collection.find({'_id': {'$in': ids}})
FindByIds(collection, ids) == SelectSeq(collection, LAMBDA doc : doc["_id"] \in ids)

\* source_collection.delete_many({'_id': {'$in': ids}})
DeleteByIds(collection, ids) == SelectSeq(collection, LAMBDA doc : doc["_id"] \notin ids)

\* an ordered insert_many can store the first k documents: none of them has
\* the _id of a stored document or of a document before it in the batch
CanInsert(collection, docs, k) ==
    \A j \in 1..k :
        /\ docs[j]["_id"] \notin IdsOf(collection)
        /\ \A m \in 1..(j - 1) : docs[m]["_id"] # docs[j]["_id"]

WriteOp(name, arg, ok) == [op |-> name, arg |-> arg, ok |-> ok]

OidA == "691cee06d10432b7f9472790"
OidB == "691cee06d10432b7f94727a8"
OidC == "691cee06d10432b7f94727a9"

RecordingA == [k \in {"_id", "title"} |-> IF k = "_id" THEN OidA ELSE "Weekly"]
RecordingB == [k \in {"_id", "title"} |-> IF k = "_id" THEN OidB ELSE "Sync"]
RecordingC == [k \in {"_id", "title"} |-> IF k = "_id" THEN OidC ELSE "Retro"]
RecordingNoId == [k \in {"title"} |-> "Draft"]
\* the caller's copy of a stored document, taken before its title changed
RecordingAStale == [k \in {"_id", "title"} |-> IF k = "_id" THEN OidA ELSE "Weekly (old)"]

\* the ids a caller passes: of stored documents, of none, and two that do
\* not convert
MoveIdSet == {OidA, OidB, OidC, "short", "691cee06d10432b7f94727zz"}

MoveDocSet == {RecordingA, RecordingAStale, RecordingB, RecordingNoId}

MoveArguments ==
    {[ids |-> ids, docs |-> docs] :
        ids \in {None} \cup {List(q) : q \in SeqsUpTo(MoveIdSet, MaxBatch)},
        docs \in {None, List(<<>>)}}
    \cup
    {[ids |-> ids, docs |-> List(q)] :
        ids \in {None, List(<<OidA>>)},
        q \in SeqsUpTo(MoveDocSet, MaxBatch) \ {<<>>}}

InitMove ==
    /\ recordings \in {<<>>, <<RecordingA>>, <<RecordingA, RecordingB>>, <<RecordingB, RecordingA>>}
    /\ failed_recordings \in {<<>>, <<RecordingB>>, <<RecordingC>>}
    /\ \E a \in MoveArguments : failed_ids = a.ids /\ failed_documents = a.docs
    /\ dry_run \in BOOLEAN
    /\ documents = <<>> /\ query = {} /\ ops = <<>>
    /\ pc = "move"
    /\ lines = <<"">> /\ i = 0 /\ parsed_lines = <<>> /\ branch = "start" /\ stats = NoStats /\ stats_keys = <<>>
    /\ name_in = "" /\ name_out = <<>> /\ doc_in = NoDoc /\ doc_out = <<>>
    /\ content_in = "" /\ section_out = <<>>
    /\ AggIdle /\ FetchIdle

moveArgs == <<failed_ids, failed_documents, dry_run>>

\* lines 360-375: the documents are given
MoveFromDocuments ==
    /\ pc = "move"
    /\ Truthy(failed_documents)
    /\ \A k \in DOMAIN failed_documents.v : "_id" \in DOMAIN failed_documents.v[k]
    /\ documents' = failed_documents.v
    /\ query' = IdsOf(failed_documents.v)
    /\ pc' = "move_found"
    /\ UNCHANGED <<parseVars, aggVars, moveArgs, recordings, failed_recordings, ops, fetchVars>>

\* line 371: doc['_id'] raises KeyError, caught at line 510
MoveDocumentsKeyError ==
    /\ pc = "move"
    /\ Truthy(failed_documents)
    /\ \E k \in DOMAIN failed_documents.v : "_id" \notin DOMAIN failed_documents.v[k]
    /\ pc' = "move_closed"
    /\ UNCHANGED <<parseVars, aggVars, moveVars, fetchVars>>

\* lines 378-428: ids are given, and some of them find a document
MoveFromIds ==
    /\ pc = "move"
    /\ ~Truthy(failed_documents) /\ Truthy(failed_ids)
    /\ LET object_ids == Range(ObjectIds(failed_ids.v))
       IN  /\ FindByIds(recordings, object_ids) # <<>>
           /\ query' = object_ids
           /\ documents' = FindByIds(recordings, object_ids)
    /\ pc' = "move_found"
    /\ UNCHANGED <<parseVars, aggVars, moveArgs, recordings, failed_recordings, ops, fetchVars>>

\* lines 398-400 and 413-415: no id converts, or no document is found
MoveNoneFound ==
    /\ pc = "move"
    /\ ~Truthy(failed_documents) /\ Truthy(failed_ids)
    /\ FindByIds(recordings, Range(ObjectIds(failed_ids.v))) = <<>>
    /\ query' = Range(ObjectIds(failed_ids.v))
    /\ pc' = "move_closed"
    /\ UNCHANGED <<parseVars, aggVars, moveArgs, recordings, failed_recordings, documents, ops, fetchVars>>

\* lines 428-430: neither ids nor documents
MoveNothingGiven ==
    /\ pc = "move"
    /\ ~Truthy(failed_documents) /\ ~Truthy(failed_ids)
    /\ pc' = "move_closed"
    /\ UNCHANGED <<parseVars, aggVars, moveVars, fetchVars>>

\* lines 432-488: the report of the dry run, which only prints
MoveDryRun ==
    /\ pc = "move_found"
    /\ dry_run
    /\ pc' = "move_closed"
    /\ UNCHANGED <<parseVars, aggVars, moveVars, fetchVars>>

\* the insert of line 496, were it issued in a dry run as well
MoveInsertManyAlways ==
    /\ pc = "move_found"
    /\ CanInsert(failed_recordings, documents, Len(documents))
    /\ failed_recordings' = failed_recordings \o documents
    /\ ops' = Append(ops, WriteOp("insert_many", documents, TRUE))
    /\ pc' = "move_inserted"
    /\ UNCHANGED <<parseVars, aggVars, moveArgs, recordings, documents, query, fetchVars>>

\* line 496: insert_many stores every document and returns
MoveInsertMany ==
    /\ pc = "move_found"
    /\ ~dry_run
    /\ CanInsert(failed_recordings, documents, Len(documents))
    /\ failed_recordings' = failed_recordings \o documents
    /\ ops' = Append(ops, WriteOp("insert_many", documents, TRUE))
    /\ pc' = "move_inserted"
    /\ UNCHANGED <<parseVars, aggVars, moveArgs, recordings, documents, query, fetchVars>>

\* line 496: insert_many raises, on a duplicate _id or on a failure of the
\* connection, having stored the first k documents; caught at line 510
MoveInsertManyRaises ==
    /\ pc = "move_found"
    /\ ~dry_run
    /\ \E k \in 0..Len(documents) :
           /\ CanInsert(failed_recordings, documents, k)
           /\ failed_recordings' = failed_recordings \o SubSeq(documents, 1, k)
    /\ ops' = Append(ops, WriteOp("insert_many", documents, FALSE))
    /\ pc' = "move_closed"
    /\ UNCHANGED <<parseVars, aggVars, moveArgs, recordings, documents, query, fetchVars>>

\* the delete of line 500, were it issued whatever became of the insert
MoveDeleteManyAlways ==
    /\ pc \in {"move_inserted", "move_closed"}
    /\ ~dry_run /\ documents # <<>>
    /\ ops # <<>> /\ ops[Len(ops)].op = "insert_many"
    /\ recordings' = DeleteByIds(recordings, query)
    /\ ops' = Append(ops, WriteOp("delete_many", query, TRUE))
    /\ pc' = "move_closed"
    /\ UNCHANGED <<parseVars, aggVars, moveArgs, failed_recordings, documents, query, fetchVars>>

\* line 500: delete_many removes the documents of the query and returns
MoveDeleteMany ==
    /\ pc = "move_inserted"
    /\ recordings' = DeleteByIds(recordings, query)
    /\ ops' = Append(ops, WriteOp("delete_many", query, TRUE))
    /\ pc' = "move_closed"
    /\ UNCHANGED <<parseVars, aggVars, moveArgs, failed_recordings, documents, query, fetchVars>>

\* line 500: delete_many raises; the server has removed the documents or
\* has not
MoveDeleteManyRaises ==
    /\ pc = "move_inserted"
    /\ recordings' \in {recordings, DeleteByIds(recordings, query)}
    /\ ops' = Append(ops, WriteOp("delete_many", query, FALSE))
    /\ pc' = "move_closed"
    /\ UNCHANGED <<parseVars, aggVars, moveArgs, failed_recordings, documents, query, fetchVars>>

NextMove ==
    \/ MoveFromDocuments
    \/ MoveDocumentsKeyError
    \/ MoveFromIds
    \/ MoveNoneFound
    \/ MoveNothingGiven
    \/ MoveDryRun
    \/ MoveInsertMany
    \/ MoveInsertManyRaises
    \/ MoveDeleteMany
    \/ MoveDeleteManyRaises

SpecMove == InitMove /\ [][NextMove]_vars

----------------------------------------------------------------------------
(* Properties of parse_transcript                                          *)

LineIndexes == 0..(Len(lines) - 1)

LineK(k) == Strip(LineAt(lines, k))

Last(q) == q[Len(q)]

\* line k has the single-line form and its speaker passes the validator
ValidSingleLines ==
    {k \in LineIndexes :
        /\ SingleLine(LineK(k)).ok
        /\ IsValidParticipant(Strip(SingleLine(LineK(k)).speaker))}

OnlySingleLines == \A k \in LineIndexes : LineK(k) = "" \/ SingleLine(LineK(k)).ok

\* line k consists solely of a timestamp and the next non-blank line is a
\* `speaker: text` line with a valid speaker
TimestampBlocks ==
    {k \in LineIndexes :
        /\ IsTimestampLine(LineK(k))
        /\ SkipBlankLines(lines, k + 1) < Len(lines)
        /\ SpeakerMatch(LineK(SkipBlankLines(lines, k + 1))).ok
        /\ IsValidParticipant(SpeakerMatch(LineK(SkipBlankLines(lines, k + 1))).speaker)}

BlockSpeakerLine(k) == SpeakerMatch(LineK(SkipBlankLines(lines, k + 1)))

\* the text of the block of k: the speaker line's text and every directly
\* following line up to the first blank, timestamp or label line
BlockText(k) ==
    Strip(Absorb(lines, SkipBlankLines(lines, k + 1) + 1, BlockSpeakerLine(k).text).text)

\* the speaker a line puts forward, by the grammar the line has
HasCandidate(k) == LineK(k) # "" /\ (SingleLine(LineK(k)).ok \/ SpeakerMatch(LineK(k)).ok)

CandidateSpeaker(k) ==
    IF SingleLine(LineK(k)).ok THEN Strip(SingleLine(LineK(k)).speaker)
    ELSE SpeakerMatch(LineK(k)).speaker

NoiseLines == {k \in LineIndexes : HasCandidate(k) /\ ~IsValidParticipant(CandidateSpeaker(k))}

\* the cursor is on a bare `speaker: text` line with a valid speaker
AtBareValid ==
    /\ Scanning
    /\ CurrentLine # ""
    /\ ~SingleLine(CurrentLine).ok
    /\ ~IsTimestampLine(CurrentLine)
    /\ SpeakerMatch(CurrentLine).ok
    /\ IsValidParticipant(SpeakerMatch(CurrentLine).speaker)

BareSpeaker == NormalizeParticipantName(SpeakerMatch(CurrentLine).speaker)

BareText == SpeakerMatch(CurrentLine).text

SameAsLast == parsed_lines # <<>> /\ Last(parsed_lines).speaker = BareSpeaker

\* C1: every utterance emitted, by whichever branch, has a stored speaker
\* that is non-empty and passes is_valid_participant.
C1_SpeakersValid ==
    \A n \in 1..Len(parsed_lines) :
        parsed_lines[n].speaker # "" /\ IsValidParticipant(parsed_lines[n].speaker)

\* C2: normalising a name twice gives the same result as normalising it once.
C2_NormalizeIdempotent == pc = "name_twice" => name_out[2] = name_out[1]

\* C3: normalising a document twice gives the same document as normalising
\* it once, for documents of either schema and for mixes of both.
C3_NormalizeDocumentIdempotent == pc = "doc_twice" => doc_out[2] = doc_out[1]

\* the first call fills in title, transcript and date (the date from the
\* clock), the transcript stays empty, so the second call runs every step
C3_Witness ==
    /\ pc = "doc_twice"
    /\ {"title", "transcript", "date"} \cap DOMAIN doc_in = {}
    /\ ~Truthy(doc_out[1]["transcript"])
    /\ "date" \in DOMAIN doc_out[1]
    /\ doc_out[1]["date"] \in {DateTime(now) : now \in Clock}

\* C4: when every non-blank line has the single-line form, the number of
\* utterances returned is the number of lines whose speaker is valid.
C4_SingleLineCount ==
    (pc = "done" /\ OnlySingleLines) => Len(parsed_lines) = Cardinality(ValidSingleLines)

C4_Witness ==
    /\ pc = "done"
    /\ OnlySingleLines
    /\ Cardinality(ValidSingleLines) >= 2
    /\ \E k \in LineIndexes : SingleLine(LineK(k)).ok /\ k \notin ValidSingleLines

\* C5: a line of the single-line form with a valid speaker yields, wherever
\* it stands, an utterance with that line's own timestamp and speaker.
C5_SingleLineHandledAnywhere ==
    pc = "done" =>
        \A k \in ValidSingleLines :
            \E n \in 1..Len(parsed_lines) :
                /\ parsed_lines[n].timestamp = SingleLine(LineK(k)).timestamp
                /\ parsed_lines[n].speaker =
                       NormalizeParticipantName(Strip(SingleLine(LineK(k)).speaker))

\* C6: every standalone timestamp line followed by a valid `speaker: text`
\* line yields an utterance of that speaker with that timestamp, whatever
\* precedes the timestamp line.
C6_TimestampSupplied ==
    pc = "done" =>
        \A k \in TimestampBlocks :
            \E n \in 1..Len(parsed_lines) :
                /\ parsed_lines[n].timestamp = LineK(k)
                /\ parsed_lines[n].speaker = NormalizeParticipantName(BlockSpeakerLine(k).speaker)

\* C7: after a standalone timestamp and a valid `speaker: text` line, the
\* directly following continuation lines are part of that speaker's
\* utterance, joined by single spaces (a later bare line of the same speaker
\* may extend the text further).
C7_ContinuationAbsorbed ==
    pc = "done" =>
        \A k \in TimestampBlocks :
            \E n \in 1..Len(parsed_lines) :
                /\ parsed_lines[n].speaker = NormalizeParticipantName(BlockSpeakerLine(k).speaker)
                /\ \/ parsed_lines[n].text = BlockText(k)
                   \/ StartsWith(parsed_lines[n].text, BlockText(k) \o " ")

\* C8: a bare line with a valid speaker is merged into the last utterance
\* (text extended by one space and the new text, nothing else changed) if
\* and only if the last utterance has the same normalised speaker; otherwise
\* the list grows by one utterance.
C8_BareMergeOnlyWithLast ==
    [][AtBareValid =>
        IF SameAsLast
        THEN parsed_lines' =
                 [parsed_lines EXCEPT ![Len(parsed_lines)].text = @ \o " " \o BareText]
        ELSE /\ Len(parsed_lines') = Len(parsed_lines) + 1
             /\ SubSeq(parsed_lines', 1, Len(parsed_lines)) = parsed_lines
             /\ Last(parsed_lines').speaker = BareSpeaker]_vars

\* bare lines of A, B, A, A: the third starts a new utterance, the fourth merges
C8_Witness ==
    /\ branch = "bare_merge"
    /\ Len(parsed_lines) = 3
    /\ parsed_lines[1].speaker = parsed_lines[3].speaker
    /\ parsed_lines[1].speaker # parsed_lines[2].speaker

\* C9: a bare line with a valid speaker other than the last utterance's
\* appends an utterance whose timestamp is the last utterance's, or
\* "00:00:00" when nothing was emitted yet.
C9_BareNewReusesTimestamp ==
    [][(AtBareValid /\ ~SameAsLast) =>
        parsed_lines' =
            Append(parsed_lines,
                   Utterance(IF parsed_lines = <<>> THEN "00:00:00"
                             ELSE Last(parsed_lines).timestamp,
                             BareSpeaker, BareText))]_vars

C9_Witness ==
    /\ branch = "bare_new"
    /\ Len(parsed_lines) >= 2
    /\ Last(parsed_lines).timestamp # "00:00:00"
    /\ Last(parsed_lines).timestamp = parsed_lines[Len(parsed_lines) - 1].timestamp

\* C10: the label of a line whose candidate speaker fails the validator
\* never appears as a key of extract_participant_stats of the result.
C10_NoiseLabelNeverKey ==
    pc = "done" =>
        \A k \in NoiseLines :
            CandidateSpeaker(k) \notin DOMAIN ExtractParticipantStats(parsed_lines)

\* C10, the part about one iteration: when the branch taken rejects the
\* candidate speaker, the list is unchanged and the cursor moves forward.
NoiseStepLeavesList ==
    [][(Scanning /\ branch' \in {"single_reject", "ts_reject", "bare_reject"}) =>
        parsed_lines' = parsed_lines /\ i' > i]_vars

\* C11: parse_transcript terminates: every iteration of the main loop, on
\* whichever branch, moves the cursor forward by at least one line and never
\* further than one past the end, so Len(lines) - i bounds the iterations
\* left; once the cursor is at or past the end the only step is the return,
\* which hands back the list as it stands.
C11_Terminates ==
    [][pc = "scan" =>
        IF i < Len(lines)
        THEN i' > i /\ i' <= Len(lines) + 1 /\ pc' = "scan"
        ELSE pc' = "done" /\ parsed_lines' = parsed_lines]_vars

\* a transcript of MaxLines non-blank lines that yields no utterance; the
\* last line is a standalone timestamp, which moves the cursor past the end
C11_Witness ==
    /\ pc = "done"
    /\ parsed_lines = <<>>
    /\ Len(lines) = MaxLines
    /\ \A k \in LineIndexes : LineK(k) # ""
    /\ i = Len(lines) + 1

\* the sum of speak_count over the speakers of a stats dictionary
RECURSIVE SumSpeakCount(_)
SumSpeakCount(st) ==
    IF DOMAIN st = {} THEN 0
    ELSE LET speaker == CHOOSE x \in DOMAIN st : TRUE
         IN  st[speaker].speak_count
                 + SumSpeakCount([x \in DOMAIN st \ {speaker} |-> st[x]])

\* C12: for any utterance list, the speak_count values of the stats
\* dictionary add up to the length of the list.
C12_SpeakCountsSumToLen == pc = "stats" => SumSpeakCount(stats) = Len(parsed_lines)

\* three utterances of two speakers, one of them the empty speaker
C12_Witness ==
    /\ pc = "stats"
    /\ Len(parsed_lines) = MaxUtterances
    /\ Cardinality(DOMAIN stats) = 2
    /\ "" \in DOMAIN stats
    /\ \E x \in DOMAIN stats : stats[x].speak_count = 2

\* the labels one person goes by, and the name they are to be filed under
Persons ==
    { [labels |-> {"Nam", "Nam Ph&am Ti&en", "Nam Ti&en"}, canonical |-> "Nam Pham"],
      [labels |-> {"Nakamura Chiko"}, canonical |-> "Chiko Nakamura"],
      [labels |-> {"Geonwoo Shin"}, canonical |-> "Thomas Shin"] }

\* the raw label of the utterance the step emits or extends
EmittedLabel ==
    CASE branch' = "single_emit" -> Strip(SingleLine(CurrentLine).speaker)
      [] branch' = "ts_emit"     -> BlockSpeakerLine(i).speaker
      [] OTHER                   -> SpeakerMatch(CurrentLine).speaker

UtterancesOf(speaker) == {n \in 1..Len(parsed_lines) : parsed_lines[n].speaker = speaker}

RECURSIVE WordsOf(_)
WordsOf(S) ==
    IF S = {} THEN 0
    ELSE LET n == CHOOSE x \in S : TRUE
         IN  WordCount(parsed_lines[n].text) + WordsOf(S \ {n})

\* C13: an utterance under any label of a person is filed under the
\* person's canonical name, so the stats dictionary has no key that is an
\* alias, and the canonical key counts the utterances and words of all the
\* person's labels together.
C13_AliasesCollapse ==
    [][/\ (Scanning /\ branch' \in {"single_emit", "ts_emit", "bare_merge", "bare_new"}) =>
            \A person \in Persons :
                EmittedLabel \in person.labels =>
                    parsed_lines'[Len(parsed_lines')].speaker = person.canonical
       /\ pc' = "stats" =>
            \A person \in Persons :
                /\ DOMAIN stats' \cap person.labels = {}
                /\ UtterancesOf(person.canonical) # {} =>
                    /\ person.canonical \in DOMAIN stats'
                    /\ stats'[person.canonical].speak_count =
                           Cardinality(UtterancesOf(person.canonical))
                    /\ stats'[person.canonical].total_words =
                           WordsOf(UtterancesOf(person.canonical))]_vars

\* `Nam: a` and `00:01 Nam Ti&en: c d`: one key, two utterances, three words
C13_Witness ==
    /\ pc = "stats"
    /\ lines = <<"Nam: a", "00:01 Nam Ti&en: c d">>
    /\ DOMAIN stats = {"Nam Pham"}
    /\ stats["Nam Pham"].speak_count = 2
    /\ stats["Nam Pham"].total_words = 3

\* the candidate trimmed, one leading byte-order mark taken off, trimmed again
Trimmed(candidate) ==
    LET t == Strip(candidate)
    IN  IF StartsWith(t, BOM) THEN Strip(From(t, 2)) ELSE t

\* C14: is_valid_participant returns False exactly for the candidates that,
\* trimmed and without a leading byte-order mark, are empty or match a
\* noise pattern, True for every other; and a second call returns the same.
C14_ValidatorContract ==
    pc = "valid_twice" =>
        /\ name_out[2] = name_out[1]
        /\ name_out[1] = ~(Trimmed(name_in) = "" \/ MatchesInvalidPattern(Trimmed(name_in)))
        /\ name_in \in NoiseCandidates => name_out[1] = FALSE
        /\ name_in \in OrdinaryCandidates => name_out[1] = TRUE

\* a name behind a byte-order mark and a blank is accepted
C14_Witness == pc = "valid_twice" /\ name_in = "~ A" /\ name_out = <<TRUE, TRUE>>

\* C15: normalize_participant_name returns a non-empty string for every
\* non-empty argument, whitespace-only strings and bracketed annotations
\* included.
C15_NormalizeNeverEmpty == (pc = "name_once" /\ name_in # "") => name_out[1] # ""

\* C16: _normalize_document leaves the caller's record as it was, on the
\* short-circuit path and on the conversion path.
C16_InputUnchanged == [][pc = "doc" => doc_in' = doc_in]_vars

\* a conversion that adds title, transcript, date and participants to the
\* record returned
C16_Witness ==
    /\ pc = "doc_once"
    /\ {"title", "transcript", "date", "participants"} \cap DOMAIN doc_in = {}
    /\ {"title", "transcript", "date", "participants"} \subseteq DOMAIN doc_out[1]

HasTitleAndTranscript ==
    /\ "title" \in DOMAIN doc_in
    /\ "transcript" \in DOMAIN doc_in
    /\ doc_in["transcript"] \notin {None, Str("")}

\* C17: a document with a title key and a non-empty transcript is returned
\* with no field added, changed or removed.
C17_ShortCircuit == (pc = "doc_once" /\ HasTitleAndTranscript) => doc_out[1] = doc_in

\* no date although createdTime is there, and no participants although the
\* transcript has speakers: neither is filled in
C17_Witness ==
    /\ pc = "doc_once"
    /\ HasTitleAndTranscript
    /\ "createdTime" \in DOMAIN doc_in
    /\ "date" \notin DOMAIN doc_out[1]
    /\ "participants" \notin DOMAIN doc_out[1]
    /\ ExtractParticipantsFromTranscript(doc_in["transcript"].v[1]) # <<>>

\* doc.title, else doc.name, else "Untitled Meeting"
ExpectedTitle ==
    IF "title" \in DOMAIN doc_in THEN doc_in["title"]
    ELSE IF "name" \in DOMAIN doc_in THEN doc_in["name"]
    ELSE Str("Untitled Meeting")

HasText(key) == key \in DOMAIN doc_in /\ doc_in[key] \notin {None, Str("")}

\* doc.transcript if non-empty, else the section extracted from doc.content
\* if there is content, else the empty string
ExpectedTranscript ==
    IF HasText("transcript") THEN doc_in["transcript"]
    ELSE IF HasText("content") THEN Str(ExtractTranscriptSection(doc_in["content"].v[1]))
    ELSE Str("")

\* C18: the title and the transcript of the record returned are chosen from
\* title, name, transcript and content as the schema reconciliation says.
C18_TitleAndTranscript ==
    pc = "doc_once" =>
        /\ doc_out[1]["title"] = ExpectedTitle
        /\ doc_out[1]["transcript"] = ExpectedTranscript

\* title taken from name, transcript cut out of content behind the marker
C18_Witness ==
    /\ pc = "doc_once"
    /\ "title" \notin DOMAIN doc_in
    /\ doc_out[1]["title"] = Str("SYB call")
    /\ ~HasText("transcript")
    /\ doc_out[1]["transcript"] = Str("00:01\nNam: a")

\* C19: on the conversion path the date returned is doc.date when present
\* and not null; otherwise a datetime createdTime as it is, a string
\* createdTime parsed after the Z and the fraction are dealt with, and the
\* current time for any string that does not parse.
C19_DateResolved ==
    (pc = "doc_once" /\ ~HasTitleAndTranscript) =>
        IF "date" \in DOMAIN doc_in /\ doc_in["date"] # None
        THEN doc_out[1]["date"] = doc_in["date"]
        ELSE IF "createdTime" \notin DOMAIN doc_in THEN TRUE
        ELSE IF doc_in["createdTime"].t = "datetime"
        THEN "date" \in DOMAIN doc_out[1] /\ doc_out[1]["date"] = doc_in["createdTime"]
        ELSE /\ "date" \in DOMAIN doc_out[1]
             /\ IF IsIsoFormat(IsoTimeStr(doc_in["createdTime"].v[1]))
                THEN doc_out[1]["date"] = DateTime(IsoTimeStr(doc_in["createdTime"].v[1]))
                ELSE doc_out[1]["date"] \in {DateTime(now) : now \in Clock}

\* none of the markers occurs in the content
NoMarker ==
    \A m \in DOMAIN TranscriptMarkers :
        /\ SearchMarker(content_in, TranscriptMarkers[m]) = 0
        /\ SearchMarker(NormalizeNewlines(content_in), TranscriptMarkers[m]) = 0

\* C20: a content in which no marker occurs is returned unchanged,
\* character for character.
C20_FailOpen == (pc = "extracted" /\ NoMarker) => section_out[1] = content_in

----------------------------------------------------------------------------
(* Derived participants                                                    *)

\* participants is absent from the document or falsy in it
ParticipantsMissing ==
    "participants" \notin DOMAIN doc_in \/ ~Truthy(doc_in["participants"])

\* the transcript of the record returned
ResolvedTranscript == doc_out[1]["transcript"]

\* the speakers of parse_transcript(transcript) that pass the Validator
SpeakersPassing ==
    LET parsed == ParseTranscript(ResolvedTranscript.v[1])
    IN  {parsed[n].speaker : n \in
            {n \in 1..Len(parsed) : IsValidParticipant(parsed[n].speaker)}}

\* q lists exactly the names of S, ascending, each once
IsSortedListOf(q, S) ==
    /\ {q[n] : n \in 1..Len(q)} = S
    /\ \A n \in 1..(Len(q) - 1) : StrLess(q[n], q[n + 1])

\* C21, as stated: whenever participants is absent or empty and the resolved
\* transcript is non-empty, the record returned holds under participants
\* the speakers passing the Validator, ascending and each once.
C21_ParticipantsDerived ==
    (pc = "doc_once" /\ ParticipantsMissing /\ Truthy(ResolvedTranscript)) =>
        /\ "participants" \in DOMAIN doc_out[1]
        /\ doc_out[1]["participants"].t = "list"
        /\ IsSortedListOf(doc_out[1]["participants"].v, SpeakersPassing)

\* C21, amended: on the conversion path, when participants is absent or empty
\* and the resolved transcript is non-empty, participants is set to the
\* speakers passing the Validator, ascending and each once, if there is any
\* such speaker, and is left as the document had it if there is none.
C21_ParticipantsDerivedOnConversion ==
    (pc = "doc_once" /\ ~HasTitleAndTranscript /\ ParticipantsMissing
                     /\ Truthy(ResolvedTranscript)) =>
        IF SpeakersPassing # {}
        THEN /\ "participants" \in DOMAIN doc_out[1]
             /\ doc_out[1]["participants"].t = "list"
             /\ IsSortedListOf(doc_out[1]["participants"].v, SpeakersPassing)
             /\ \A n \in DOMAIN doc_out[1]["participants"].v :
                    IsValidParticipant(doc_out[1]["participants"].v[n])
        ELSE IF "participants" \in DOMAIN doc_in
             THEN doc_out[1]["participants"] = doc_in["participants"]
             ELSE "participants" \notin DOMAIN doc_out[1]

\* the content has a valid speaker and a label the Validator rejects: only
\* the valid one is listed
C21_Witness ==
    /\ pc = "doc_once"
    /\ "participants" \notin DOMAIN doc_in
    /\ ResolvedTranscript = Str("B: yo\n12[x]: z")
    /\ doc_out[1]["participants"] = List(<<"B">>)

----------------------------------------------------------------------------
(* Properties of analyze_aggregated_meetings                               *)

\* the document has no date: no date key, or a null date
Undated(meeting) == "date" \notin DOMAIN meeting \/ meeting["date"] = None

\* x is to come strictly before y: x is undated and y is dated, or both
\* are dated and x's date is the earlier one
DateBefore(x, y) ==
    IF Undated(y) THEN FALSE
    ELSE IF Undated(x) THEN TRUE
    ELSE KeyLess(x["date"], y["date"])

\* q holds the elements of r, each as often as r does
IsPermutation(q, r) ==
    /\ Len(q) = Len(r)
    /\ \E f \in [DOMAIN q -> DOMAIN r] :
           /\ \A a, b \in DOMAIN q : a # b => f[a] # f[b]
           /\ \A a \in DOMAIN q : q[a] = r[f[a]]

\* the sorted list is the input in ascending order of date, the sections
\* written so far are those of its first n_done documents, in that order
InDateOrder ==
    /\ IsPermutation(sorted_meetings, meetings)
    /\ \A a, b \in DOMAIN sorted_meetings :
           a < b => ~DateBefore(sorted_meetings[b], sorted_meetings[a])
    /\ Len(aggregated_transcript) = 2 * n_done
    /\ \A k \in 1..n_done :
           /\ aggregated_transcript[2 * k - 1] = SectionHeader(sorted_meetings[k])
           /\ aggregated_transcript[2 * k] =
                  Get(sorted_meetings[k], "transcript", Str("")).v[1]

\* C22: for any mix of dated and undated documents the call sorts them by
\* date ascending, the undated ones first, and writes the sections of the
\* merged transcript in that order; in particular the sort does not fail.
C22_DateOrder ==
    /\ pc # "agg_raised"
    /\ (pc \in {"agg_loop", "agg_returned"} /\ meetings # <<>>) => InDateOrder

\* the same order, for the lists whose sort keys can all be compared
C22_DateOrderWhenComparable ==
    (pc \in {"agg_loop", "agg_returned"} /\ meetings # <<>>) => InDateOrder

\* a document with a null date beside a dated one: the sort has raised
C22_NullDateRaises ==
    /\ pc = "agg_raised"
    /\ Len(meetings) = 2
    /\ "date" \in DOMAIN meetings[1] /\ meetings[1]["date"] = None
    /\ ~Undated(meetings[2])

\* extract_participant_stats(parse_transcript(transcript)) of one document
StatsOfMeeting(meeting) ==
    ExtractParticipantStats(ParseTranscript(Get(meeting, "transcript", Str("")).v[1]))

\* the speakers of the first n documents of ms
RECURSIVE SpeakersOver(_, _)
SpeakersOver(ms, n) ==
    IF n = 0 THEN {} ELSE SpeakersOver(ms, n - 1) \cup DOMAIN StatsOfMeeting(ms[n])

\* the sum, over the first n documents of ms, of the speaker's count
RECURSIVE SumOver(_, _, _, _)
SumOver(ms, n, speaker, field) ==
    IF n = 0 THEN 0
    ELSE SumOver(ms, n - 1, speaker, field)
             + (LET st == StatsOfMeeting(ms[n])
                IN  IF speaker \in DOMAIN st THEN st[speaker][field] ELSE 0)

\* global_stats holds, for exactly the speakers of the first n documents of
\* ms, the sums of their per-document counts
TotalsAreSums(ms, n) ==
    /\ DOMAIN global_stats = SpeakersOver(ms, n)
    /\ \A speaker \in DOMAIN global_stats :
           /\ global_stats[speaker].speak_count = SumOver(ms, n, speaker, "speak_count")
           /\ global_stats[speaker].total_words = SumOver(ms, n, speaker, "total_words")

\* C23: while the loop runs the global totals are the sums over the documents
\* dealt with so far, and once all documents are dealt with they are the
\* sums over all input documents: no document's counts replace another's.
C23_TotalsAreSums ==
    /\ pc = "agg_loop" => TotalsAreSums(sorted_meetings, n_done)
    /\ (pc \in {"agg_loop", "agg_returned"} /\ meetings # <<>>
            /\ n_done = Len(sorted_meetings)) => TotalsAreSums(meetings, Len(meetings))

\* A speaks in both documents: one utterance of one word, then one of two
C23_Witness ==
    /\ pc = "agg_returned"
    /\ Len(meetings) = 2 /\ n_done = 2
    /\ DOMAIN StatsOfMeeting(meetings[1]) = {"A"}
    /\ DOMAIN StatsOfMeeting(meetings[2]) = {"A", "B"}
    /\ DOMAIN global_stats = {"A", "B"}
    /\ global_stats["A"] = [speak_count |-> 2, total_words |-> 3]
    /\ global_stats["B"] = [speak_count |-> 1, total_words |-> 2]

\* the documents of the input whose transcript is missing or empty
EmptyMeetings ==
    {k \in DOMAIN meetings : Get(meetings[k], "transcript", Str("")).v[1] = ""}

\* C24: analyze_aggregated_meetings never calls parse_transcript on an empty
\* transcript, and no section of a document with an empty transcript is in
\* the text it sends to the LLM.
C24_EmptyNeverParsed ==
    \A c \in DOMAIN calls :
        /\ calls[c].fn = "parse_transcript" => calls[c].arg # ""
        /\ calls[c].fn = "generate_content" =>
               \A k \in EmptyMeetings, piece \in DOMAIN calls[c].arg :
                   calls[c].arg[piece] # SectionHeader(meetings[k])

\* a single document with an empty transcript: parsed twice, then sent
C24_EmptyParsedAndSent ==
    /\ pc = "agg_returned"
    /\ Len(meetings) = 1 /\ EmptyMeetings = {1}
    /\ calls = <<ParseCall(""), ParseCall(""),
                 [fn |-> "generate_content", arg |-> <<SectionHeader(meetings[1]), "">>]>>

----------------------------------------------------------------------------
(* Properties of move_failed_recordings                                    *)

\* C25: in a dry run no write is issued and no step changes either
\* collection, whatever ids or documents are passed.
C25_DryRunWritesNothing ==
    /\ [](dry_run => ops = <<>>)
    /\ [][dry_run => /\ recordings' = recordings
                     /\ failed_recordings' = failed_recordings]_vars

\* a dry run that found two documents to move has ended
C25_Witness ==
    /\ pc = "move_closed"
    /\ dry_run
    /\ Len(documents) = 2
    /\ ops = <<>>
    /\ Len(recordings) = 2

\* every delete_many in the log follows at once an insert_many of the
\* documents to move that returned
DeleteFollowsInsert ==
    \A k \in DOMAIN ops :
        ops[k].op = "delete_many" =>
            /\ k > 1
            /\ ops[k - 1] = WriteOp("insert_many", documents, TRUE)
            /\ IdsOf(documents) \subseteq IdsOf(failed_recordings)

\* C29: with dry_run false, delete_many is issued only after insert_many of
\* the documents has returned; after an insert that raised there is no
\* delete; no step removes a document from failed_recordings, and a step
\* that removes a document from recordings leaves its _id in
\* failed_recordings.
C29_NoDocumentLost ==
    /\ [](DeleteFollowsInsert)
    /\ []((ops # <<>> /\ ~ops[1].ok) => Len(ops) = 1 /\ pc = "move_closed")
    /\ [][/\ Range(failed_recordings) \subseteq Range(failed_recordings')
          /\ \A k \in DOMAIN recordings :
                 \/ recordings[k] \in Range(recordings')
                 \/ recordings[k]["_id"] \in IdsOf(failed_recordings')]_vars

\* a real move of two stored documents has gone through
C29_Witness ==
    /\ pc = "move_closed"
    /\ ~dry_run
    /\ Len(ops) = 2 /\ ops[2] = WriteOp("delete_many", {OidA, OidB}, TRUE)
    /\ recordings = <<>>
    /\ {OidA, OidB} \subseteq IdsOf(failed_recordings)

\* an insert that stored the first document and raised on the second: both
\* are still in recordings and nothing was deleted
C29_InsertRaised ==
    /\ pc = "move_closed"
    /\ ops = <<WriteOp("insert_many", <<RecordingA, RecordingB>>, FALSE)>>
    /\ recordings = <<RecordingA, RecordingB>>
    /\ failed_recordings = <<RecordingB, RecordingA>>

----------------------------------------------------------------------------
(* Properties of _extract_transcript_section with a marker                 *)

\* the first marker of the priority list that occurs in the text
FirstMarker(text) ==
    CHOOSE m \in DOMAIN TranscriptMarkers :
        /\ SearchMarker(text, TranscriptMarkers[m]) # 0
        /\ \A n \in 1..(m - 1) : SearchMarker(text, TranscriptMarkers[n]) = 0

\* the number of the line of text that holds position at
RECURSIVE LineOf(_, _)
LineOf(text, at) ==
    IF at <= 1 THEN 1
    ELSE LineOf(text, at - 1) + (IF Char(text, at - 1) = "\n" THEN 1 ELSE 0)

IsDateLine(line) == IsEnglishDate(Strip(line)) \/ IsKoreanDate(Strip(line))

IsTitleLine(line) == Contains(line, " - Transcript") \/ Contains(line, " - &seukeuripteu")

\* the section as the statement describes it: the lines after the line in
\* which the first occurring marker first occurs, less one date line and
\* then one title line, trimmed
SectionAfterMarkerLine(content) ==
    LET text      == NormalizeNewlines(content)
        at        == SearchMarker(text, TranscriptMarkers[FirstMarker(text)])
        ls        == SplitLines(text)
        first     == LineOf(text, at) + 1
        afterDate == IF first <= Len(ls) /\ IsDateLine(ls[first]) THEN first + 1 ELSE first
        start     == IF afterDate <= Len(ls) /\ IsTitleLine(ls[afterDate])
                     THEN afterDate + 1 ELSE afterDate
    IN  Strip(JoinLines(SubSeq(ls, start, Len(ls))))

\* the marker's first match lies within one line
MarkerOnOneLine ==
    LET text   == NormalizeNewlines(content_in)
        marker == TranscriptMarkers[FirstMarker(text)]
        at     == SearchMarker(text, marker)
    IN  LineOf(text, at) = LineOf(text, MarkerEnd(ToLower(text), at, marker) - 1)

\* C26: when a marker occurs, the result is the trimmed text after the
\* marker line, less one date line and then one title line; nothing on or
\* before the marker line is in it.
C26_SectionAfterMarker ==
    (pc = "extracted" /\ ~NoMarker) => section_out[1] = SectionAfterMarkerLine(content_in)

\* the same for the contents whose marker match does not run over a line end
C26_SectionAfterMarkerOnOneLine ==
    (pc = "extracted" /\ ~NoMarker /\ MarkerOnOneLine) =>
        section_out[1] = SectionAfterMarkerLine(content_in)

\* marker line, date line and title line are all cut away
C26_DateAndTitleSkipped ==
    /\ pc = "extracted"
    /\ content_in = "Transcript\nNov 7, 2025\nc - Transcript\nA: hi"
    /\ section_out = <<"A: hi">>

\* the two-part marker on two lines: the marker lines are returned
C26_MarkerReturned ==
    /\ pc = "extracted"
    /\ content_in = "x\n&book\nTranscript\nA: hi"
    /\ section_out = <<"&book\nTranscript\nA: hi">>

----------------------------------------------------------------------------
(* extract_participant_stats as a projection                               *)

\* the positions of the speaker's utterances, ascending
PositionsOf(speaker) == {n \in DOMAIN parsed_lines : parsed_lines[n].speaker = speaker}

FirstPosition(speaker) ==
    CHOOSE n \in PositionsOf(speaker) : \A m \in PositionsOf(speaker) : n <= m

\* the field of the speaker's utterances, in utterance order
FieldOf(speaker, field) ==
    LET own == SelectSeq(parsed_lines, LAMBDA entry : entry.speaker = speaker)
    IN  [n \in DOMAIN own |-> own[n][field]]

RECURSIVE SumWordCounts(_)
SumWordCounts(texts) ==
    IF texts = <<>> THEN 0 ELSE WordCount(Head(texts)) + SumWordCounts(Tail(texts))

\* C27: the keys of the dictionary are the distinct speakers of the list in
\* the order of their first utterances, taken as they are; for each speaker
\* speak_count is the number of their utterances, timestamps and statements
\* list their timestamps and texts in utterance order, and total_words is
\* the sum of the numbers of whitespace-delimited tokens of those texts.
C27_StatsAreProjection ==
    pc = "stats" =>
        /\ Range(stats_keys) = {parsed_lines[n].speaker : n \in DOMAIN parsed_lines}
        /\ DOMAIN stats = Range(stats_keys)
        /\ \A a, b \in DOMAIN stats_keys :
               a < b => FirstPosition(stats_keys[a]) < FirstPosition(stats_keys[b])
        /\ \A speaker \in DOMAIN stats :
               /\ stats[speaker].speak_count = Cardinality(PositionsOf(speaker))
               /\ Len(stats[speaker].timestamps) = stats[speaker].speak_count
               /\ Len(stats[speaker].statements) = stats[speaker].speak_count
               /\ stats[speaker].timestamps = FieldOf(speaker, "timestamp")
               /\ stats[speaker].statements = FieldOf(speaker, "text")
               /\ stats[speaker].total_words = SumWordCounts(FieldOf(speaker, "text"))

\* B speaks, then A, then B again with another timestamp and text
C27_Witness ==
    /\ pc = "stats"
    /\ stats_keys = <<"B", "A">>
    /\ stats["B"] = [speak_count |-> 2, total_words |-> 4,
                     timestamps |-> <<"00:01", "00:00:00">>,
                     statements |-> <<"a b  c", "hi">>]
    /\ stats["A"].speak_count = 1

----------------------------------------------------------------------------
(* parse_transcript builds its list append-only                            *)

\* the speakers line k (0-based) can give rise to
LabelsOfLine(k) ==
    LET line == Strip(LineAt(lines, k))
        one  == SingleLine(line)
        bare == SpeakerMatch(line)
    IN  (IF one.ok THEN {NormalizeParticipantName(Strip(one.speaker))} ELSE {})
        \cup (IF bare.ok THEN {NormalizeParticipantName(bare.speaker),
                               Strip(NormalizeParticipantName(bare.speaker))} ELSE {})

\* the step has added one utterance at the end, made from a line it consumed
AppendsOne ==
    /\ Len(parsed_lines') = Len(parsed_lines) + 1
    /\ SubSeq(parsed_lines', 1, Len(parsed_lines)) = parsed_lines
    /\ \E k \in i..(i' - 1) : parsed_lines'[Len(parsed_lines')].speaker \in LabelsOfLine(k)

\* the step has put more text behind the text of the last utterance and has
\* changed nothing else
ExtendsLast ==
    LET n == Len(parsed_lines)
    IN  /\ n > 0 /\ Len(parsed_lines') = n
        /\ SubSeq(parsed_lines', 1, n - 1) = SubSeq(parsed_lines, 1, n - 1)
        /\ parsed_lines'[n].timestamp = parsed_lines[n].timestamp
        /\ parsed_lines'[n].speaker = parsed_lines[n].speaker
        /\ Len(parsed_lines'[n].text) > Len(parsed_lines[n].text)
        /\ SubSeq(parsed_lines'[n].text, 1, Len(parsed_lines[n].text)) = parsed_lines[n].text
        /\ branch' = "bare_merge"

\* C28: every step of the scan leaves the list as it is, appends one
\* utterance made from the lines the step consumed, or extends the text of
\* the last utterance in a same-speaker merge; no earlier utterance changes.
C28_AppendOnly ==
    [][pc = "scan" => (parsed_lines' = parsed_lines \/ AppendsOne \/ ExtendsLast)]_vars

\* two utterances emitted, the second one extended by a merge
C28_Witness ==
    /\ pc = "scan"
    /\ branch = "bare_merge"
    /\ Len(parsed_lines) = 2
    /\ parsed_lines[1].speaker # parsed_lines[2].speaker


\* ---------------------------------------------------------------------
\* fetch_meeting_records: the query built from the caller's filters
\* ---------------------------------------------------------------------

MaxConditions == 2

\* a dictionary of query operators, e.g. {'$gte': start}: a sequence of
\* <<operator, value>> pairs in insertion order
OpDict(pairs) == [t |-> "dict", v |-> pairs]

\* a list of dictionaries
ListOf(q) == [t |-> "list", v |-> q]

\* bool(value), for the values a filter holds
FilterTruthy(val) == IF val.t = "dict" THEN val.v # <<>> ELSE Truthy(val)

\* dict.pop(key): the dictionary left
Remove(d, key) == [x \in DOMAIN d \ {key} |-> d[x]]

\* list.pop(index): the list left
PopAt(q, k) == SubSeq(q, 1, k - 1) \o SubSeq(q, k + 1, Len(q))

\* lines 737-749: the condition for createdTime, datetimes as ISO strings
\* followed by 'Z' (a datetime is kept as its isoformat() text)
CreatedTimeFilter(df) ==
    LET conv(val) == IF val.t = "datetime" THEN Str(val.v[1] \o "Z") ELSE val
    IN  IF df.t = "dict"
        THEN OpDict([k \in 1..Len(df.v) |-> <<df.v[k][1], conv(df.v[k][2])>>])
        ELSE conv(df)

\* lines 751-757
DateOrFilter(df) ==
    [x \in {"$or"} |->
        ListOf(<<[y \in {"date"} |-> df],
                 [y \in {"createdTime"} |-> CreatedTimeFilter(df)]>>)]

\* lines 722-727: the index of the first condition of the list that has a
\* 'date' key, 0 when there is none
FirstDateCondition(list, conds) ==
    LET found == {k \in 1..Len(list) : "date" \in DOMAIN conds[list[k]]}
    IN  IF found = {} THEN 0 ELSE CHOOSE k \in found : \A m \in found : k <= m

\* the dictionaries a list refers to
Deref(list, conds) == [k \in 1..Len(list) |-> conds[list[k]]]

\* lines 707-771.  top is the caller's dictionary (None when not given),
\* list the list object under its '$and' key and conds the dictionaries
\* that list refers to.  filters.copy() is shallow: the copy has its own
\* keys, and shares list and conds with the caller.
BuildFilters(top, list, conds) ==
    LET given  == top # None /\ DOMAIN top # {}
        inTop  == given /\ "date" \in DOMAIN top
        inAnd  == given /\ ~inTop /\ "$and" \in DOMAIN top
        k      == IF inAnd THEN FirstDateCondition(list, conds) ELSE 0
        \* condition.pop('date') on a dictionary of the caller's list
        conds1 == IF k > 0
                  THEN [conds EXCEPT ![list[k]] = Remove(conds[list[k]], "date")]
                  ELSE conds
        list1  == IF k > 0 /\ DOMAIN conds1[list[k]] = {} THEN PopAt(list, k) ELSE list
        df     == CASE inTop -> top["date"]
                    [] k > 0 -> conds[list[k]]["date"]
                    [] OTHER -> None
        copy0  == IF ~given THEN <<>>
                  ELSE IF inTop THEN Remove(top, "date") ELSE top
        \* the copy with the list under '$and' written out
        copy   == IF "$and" \in DOMAIN copy0
                  THEN [copy0 EXCEPT !["$and"] = ListOf(Deref(list1, conds1))]
                  ELSE copy0
        \* [c for c in mongo_filters['$and'] if c]
        kept   == IF "$and" \in DOMAIN copy
                  THEN SelectSeq(copy["$and"].v, LAMBDA c : DOMAIN c # {})
                  ELSE <<>>
        built  == IF ~FilterTruthy(df) THEN copy
                  ELSE IF "$and" \in DOMAIN copy
                       THEN IF kept # <<>>
                            THEN [copy EXCEPT !["$and"] = ListOf(Append(kept, DateOrFilter(df)))]
                            ELSE DateOrFilter(df)
                  ELSE IF DOMAIN copy # {}
                       THEN [x \in {"$and"} |-> ListOf(<<copy, DateOrFilter(df)>>)]
                  ELSE DateOrFilter(df)
    IN  [mongo_filters |-> built, date_filter |-> df, and_list |-> list1, conditions |-> conds1]

\* the caller's filters as the caller reads them: the list under '$and'
\* written out
FiltersValue(top, list, conds) ==
    IF top = None THEN None
    ELSE IF "$and" \in DOMAIN top
         THEN [top EXCEPT !["$and"] = ListOf(Deref(list, conds))]
         ELSE top

StartDate == DateTime("2025-01-01T00:00:00")

ConditionSet ==
    {[x \in {"date"} |-> OpDict(<<<<"$gte", StartDate>>>>)],
     [x \in {"date"} |-> StartDate],
     [x \in {"date"} |-> OpDict(<<>>)],
     [x \in {"title"} |-> Str("x")],
     [x \in {"date", "title"} |->
         IF x = "date" THEN OpDict(<<<<"$gte", StartDate>>, <<"$lte", Str("2025-02-01")>>>>)
         ELSE Str("x")]}

ConditionLists == UNION {[1..n -> ConditionSet] : n \in 0..MaxConditions}

TopDates == {OpDict(<<<<"$gte", StartDate>>>>), StartDate}

\* the dictionaries a caller can pass: 'date' and 'title' present or not,
\* '$and' present (kept as a reference to and_list) or not
TopSet ==
    {[x \in keys |->
         CASE x = "date"  -> d
           [] x = "title" -> Str("x")
           [] x = "$and"  -> ListOf(<<>>)] :
        keys \in SUBSET {"date", "title", "$and"}, d \in TopDates}

InitFetch ==
    /\ \E top \in TopSet \cup {None}, conds \in ConditionLists :
          /\ filters = top
          /\ conditions = IF top # None /\ "$and" \in DOMAIN top THEN conds ELSE <<>>
          /\ and_list = [k \in 1..Len(conditions) |-> k]
          /\ filters_before = FiltersValue(filters, and_list, conditions)
    /\ mongo_filters = None /\ date_filter = None
    /\ pc = "fetch"
    /\ lines = <<>> /\ i = 0 /\ parsed_lines = <<>> /\ branch = "none"
    /\ name_in = "" /\ name_out = ""
    /\ doc_in = <<>> /\ doc_out = <<>> /\ stats = NoStats /\ stats_keys = <<>>
    /\ content_in = "" /\ section_out = <<>>
    /\ AggIdle /\ MoveIdle

\* lines 707-771
FetchBuildFilters ==
    /\ pc = "fetch"
    /\ LET r == CHOOSE x \in {BuildFilters(y[1], y[2], y[3]) :
                                y \in {<<filters, and_list, conditions>>}} : TRUE
       IN  /\ mongo_filters' = r.mongo_filters
           /\ date_filter' = r.date_filter
           /\ and_list' = r.and_list
           /\ conditions' = r.conditions
    /\ pc' = "fetch_query"
    /\ UNCHANGED <<lines, i, parsed_lines, branch, name_in, name_out, doc_in, doc_out,
                   stats, stats_keys, content_in, section_out, aggVars, moveVars,
                   filters, filters_before>>

\* lines 773-836: find, normalisation and the second date filter read
\* mongo_filters and date_filter and write neither them nor filters
FetchFind ==
    /\ pc = "fetch_query"
    /\ pc' = "fetch_returned"
    /\ UNCHANGED <<lines, i, parsed_lines, branch, name_in, name_out, doc_in, doc_out,
                   stats, stats_keys, content_in, section_out, aggVars, moveVars, fetchVars>>

NextFetch == FetchBuildFilters \/ FetchFind

SpecFetch == InitFetch /\ [][NextFetch]_vars

\* C30: fetch_meeting_records leaves the caller's filters dictionary as it
\* was, whether the date condition is at top level or inside '$and'.
C30_FiltersUnchanged ==
    pc \in {"fetch_query", "fetch_returned"}
        => FiltersValue(filters, and_list, conditions) = filters_before

\* the part that holds: filters whose date condition is at top level, or
\* that have none inside '$and', are left as they were
C30_FiltersUnchangedAtTopLevel ==
    (/\ pc \in {"fetch_query", "fetch_returned"}
     /\ filters_before # None
     /\ \/ "date" \in DOMAIN filters_before
        \/ "$and" \notin DOMAIN filters_before
        \/ \A k \in 1..Len(filters_before["$and"].v) :
              "date" \notin DOMAIN filters_before["$and"].v[k])
        => FiltersValue(filters, and_list, conditions) = filters_before

\* a date condition inside '$and' was taken out of the caller's list
C30_DatePoppedFromCallersList ==
    /\ pc = "fetch_returned"
    /\ filters_before # None
    /\ DOMAIN filters_before = {"$and"}
    /\ Len(filters_before["$and"].v) = 2
    /\ DOMAIN filters_before["$and"].v[1] = {"date"}
    /\ DOMAIN filters_before["$and"].v[2] = {"title"}
    /\ Len(and_list) = 1
    /\ DOMAIN conditions[and_list[1]] = {"title"}

====
